---- MODULE Spec2Model ----
(***************************************************************************)
(* Model of the dashboard rendering functions of                           *)
(* domain/transformers/chat_responses.py.                                  *)
(*                                                                         *)
(* Representation of Python values:                                        *)
(*   - a str is a Text: a tuple of tokens (TLA+ strings).  Punctuation     *)
(*     that a format string emits ("|", " ", "-", the line feed) is one    *)
(*     token each, a name or an id taken from the input is one token, and  *)
(*     a glyph is one token spelled in ASCII (see the glyph table below);  *)
(*     concatenation of str is \o, the empty str is << >>;                 *)
(*   - a list is a tuple, a dict with fixed keys is a record, a dict       *)
(*     whose keys may be missing is a function and d.get(k) is Get(d, k);  *)
(*   - None is the one-token text None where a str is expected; a list or  *)
(*     a dict that may be None is an option: Nothing for None, Some(v)     *)
(*     for the value v;                                                    *)
(*   - a call that raises returns [raised |-> <exception>, value |-> <<>>].*)
(***************************************************************************)
EXTENDS Integers, Sequences, FiniteSets, TLC

VARIABLES pc, op, args, result

vars == <<pc, op, args, result>>

-----------------------------------------------------------------------------
(* Python values *)

None == <<"<None>">>

Nothing == <<>>

Some(v) == <<v>>

Str(s) == <<s>>

\* bool(x) of a str that may be None
Truthy(x) == x # None /\ x # <<>>

\* bool(x) of a list that may be None, or of a non-empty dict that may be None
TruthyOpt(x) == x # Nothing /\ x[1] # <<>>

\* x or [] of a list that may be None
OrEmpty(x) == IF x = Nothing THEN <<>> ELSE x[1]

\* d.get(k)
Get(d, k) == IF k \in DOMAIN d THEN d[k] ELSE None

Returned(v) == [raised |-> "", value |-> v]

Raised(e) == [raised |-> e, value |-> <<>>]

\* sep.join(parts) for a list of str
RECURSIVE Join(_, _)
Join(parts, sep) ==
    IF parts = <<>> THEN <<>>
    ELSE IF Len(parts) = 1 THEN parts[1]
    ELSE parts[1] \o sep \o Join(Tail(parts), sep)

\* list(filter(pred, xs)), the predicate given as the set of elements it accepts
RECURSIVE Filter(_, _)
Filter(xs, accepted) ==
    IF xs = <<>> THEN <<>>
    ELSE (IF xs[1] \in accepted THEN <<xs[1]>> ELSE <<>>) \o Filter(Tail(xs), accepted)

\* the sequences over S of length at most n
SeqsUpTo(S, n) == UNION {[1..k -> S] : k \in 0..n}

\* those of them that hold no item twice
DistinctSeqsUpTo(S, n) ==
    {xs \in SeqsUpTo(S, n) : \A i, j \in 1..Len(xs) : i # j => xs[i] # xs[j]}

\* the number of tokens of a text that equal tok
Count(text, tok) == Cardinality({i \in 1..Len(text) : text[i] = tok})

-----------------------------------------------------------------------------
(* Glyphs, spelled in ASCII *)

Placeholder == "(x)"          \* U+2A02, the placeholder glyph
BlueCircle == "(blue)"
YellowCircle == "(yellow)"
GreenCircle == "(green)"
RedCircle == "(red)"
WhiteCircle == "(white)"
PurpleCircle == "(purple)"
OrangeCircle == "(orange)"
Clock == "(clock)"            \* U+1F557
LF == "\n"
BR == "<br/>"

-----------------------------------------------------------------------------
(* TableEmitter *)

\* a None among the columns makes str.join raise TypeError
build_markdown_table_row(columns) ==
    IF columns = <<>> THEN Returned(<<>>)
    ELSE IF \E i \in 1..Len(columns) : columns[i] = None THEN Raised("TypeError")
    ELSE Returned(<<"|", " ">> \o Join(columns, <<" ", "|", " ">>) \o <<" ", "|", LF>>)

build_markdown_table_header_separator_OnePerColumn(count) ==
    IF count = 0 THEN <<>>
    ELSE Join([i \in 1..count |-> <<"|">>], <<"-">>) \o <<LF>>

build_markdown_table_header_separator(count) ==
    IF count = 0 THEN <<>>
    ELSE Join([i \in 1..(count + 1) |-> <<"|">>], <<"-">>) \o <<LF>>

-----------------------------------------------------------------------------
(* StatusIconResolver *)

get_state_icon_WarningsIgnored(state, has_warnings) ==
    IF state = Str("Executing") THEN Str(BlueCircle)
    ELSE IF state = Str("Success") THEN Str(GreenCircle)
    ELSE IF state = Str("Failed") THEN Str(RedCircle)
    ELSE IF state = Str("Canceled") THEN Str(WhiteCircle)
    ELSE IF state = Str("TimedOut") THEN Str(RedCircle)
    ELSE IF state = Str("Cancelling") THEN Str(RedCircle)
    ELSE IF state = Str("Queued") THEN Str(PurpleCircle)
    ELSE Str(WhiteCircle)

get_state_icon(state, has_warnings) ==
    IF state = Str("Executing") THEN Str(BlueCircle)
    ELSE IF state = Str("Success")
         THEN (IF has_warnings THEN Str(YellowCircle) ELSE Str(GreenCircle))
    ELSE IF state = Str("Failed") THEN Str(RedCircle)
    ELSE IF state = Str("Canceled") THEN Str(WhiteCircle)
    ELSE IF state = Str("TimedOut") THEN Str(RedCircle)
    ELSE IF state = Str("Cancelling") THEN Str(RedCircle)
    ELSE IF state = Str("Queued") THEN Str(PurpleCircle)
    ELSE Str(WhiteCircle)

get_github_state_icon_ConclusionFirst(status, conclusion) ==
    IF conclusion = Str("success") THEN Str(GreenCircle)
    ELSE IF conclusion = Str("failure") \/ conclusion = Str("timed_out") THEN Str(RedCircle)
    ELSE IF conclusion = Str("action_required") THEN Str(OrangeCircle)
    ELSE IF status = Str("in_progress") THEN Str(BlueCircle)
    ELSE IF status = Str("queued") THEN Str(PurpleCircle)
    ELSE Str(WhiteCircle)

get_github_state_icon(status, conclusion) ==
    IF status = Str("in_progress") THEN Str(BlueCircle)
    ELSE IF status = Str("queued") THEN Str(PurpleCircle)
    ELSE IF conclusion = Str("success") THEN Str(GreenCircle)
    ELSE IF conclusion = Str("failure") \/ conclusion = Str("timed_out") THEN Str(RedCircle)
    ELSE IF conclusion = Str("action_required") THEN Str(OrangeCircle)
    ELSE IF conclusion = Str("cancelled") \/ conclusion = Str("neutral")
            \/ conclusion = Str("skipped") THEN Str(WhiteCircle)
    ELSE Str(WhiteCircle)

-----------------------------------------------------------------------------
(* RelativeTimeFormatter and LinkBuilder *)

\* domain.date.parse_dates.parse_unknown_format_date: the instant, in seconds,
\* that the Created field of a record denotes
parse_unknown_format_date(created) == created

\* domain.date.date_difference.get_date_difference_summary: the largest whole
\* unit of a duration given in seconds, with its plural
get_date_difference_summary(difference) ==
    LET Phrase(n, unit) == <<ToString(n), " ", IF n = 1 THEN unit ELSE unit \o "s">>
    IN  IF difference >= 86400 THEN Phrase(difference \div 86400, "day")
        ELSE IF difference >= 3600 THEN Phrase(difference \div 3600, "hour")
        ELSE IF difference >= 60 THEN Phrase(difference \div 60, "minute")
        ELSE Phrase(difference, "second")

build_deployment_url(octopus_url, space_id, project_id, release_version, deployment_id) ==
    octopus_url \o <<"/app#/">> \o space_id \o <<"/projects/">> \o project_id
    \o <<"/deployments/releases/">> \o release_version \o <<"/deployments/">> \o deployment_id

\* next(filter(pred, xs), None), the predicate given as the set it accepts
RECURSIVE First(_, _)
First(xs, accepted) ==
    IF xs = <<>> THEN Nothing
    ELSE IF xs[1] \in accepted THEN Some(xs[1])
    ELSE First(Tail(xs), accepted)

Range(xs) == {xs[i] : i \in 1..Len(xs)}

build_repo_link(github_repo) ==
    IF github_repo # Nothing
    THEN << <<"(doc)", " ", "[GitHub Repo](https://github.com/">> \o github_repo[1].Owner
            \o <<"/">> \o github_repo[1].Repo \o <<")">> >>
    ELSE <<>>

\* now is the clock as get_project_workflow_status reads it
get_project_workflow_status(github_actions_statuses, project_id, now) ==
    IF ~TruthyOpt(github_actions_statuses) THEN <<>>
    ELSE LET statuses == github_actions_statuses[1]
             found == First(statuses, {x \in Range(statuses) :
                                          x.ProjectId = project_id /\ Truthy(x.Status)})
         IN  IF found = Nothing THEN <<>>
             ELSE LET st == found[1]
                  IN  << get_github_state_icon(Get(st, "Status"), Get(st, "Conclusion"))
                         \o <<" ", "[">> \o Get(st, "Name") \o <<" ">> \o Get(st, "ShortSha")
                         \o <<"]", "(">> \o Get(st, "Url") \o <<")">> >>
                      \o (IF "CreatedAt" \in DOMAIN st
                          THEN << <<Clock, " ">>
                                  \o get_date_difference_summary(now - st.CreatedAt)
                                  \o <<" ", "ago">> >>
                          ELSE <<>>)

\* pull_requests is the summary of one project, or None
build_pr_response(pull_requests, github_repo) ==
    IF pull_requests # Nothing /\ github_repo # Nothing
    THEN << <<"(repeat)", " ", "[", ToString(pull_requests[1].Count), " ",
              IF pull_requests[1].Count # 1 THEN "PRs" ELSE "PR",
              "](https://github.com/">> \o github_repo[1].Owner \o <<"/">>
            \o github_repo[1].Repo \o <<"/pulls)">> >>
    ELSE <<>>

build_pr_response_for_project(pull_requests, project_id, github_repo) ==
    IF ~TruthyOpt(pull_requests) THEN <<>>
    ELSE build_pr_response(
            First(pull_requests[1], {x \in Range(pull_requests[1]) : x.ProjectId = project_id}),
            github_repo)

build_issue_response(issues, github_repo) ==
    IF issues # Nothing /\ github_repo # Nothing
    THEN << <<"(bug)", " ", "[", ToString(issues[1].Count), " ",
              IF issues[1].Count # 1 THEN "issues" ELSE "issue",
              "](https://github.com/">> \o github_repo[1].Owner \o <<"/">>
            \o github_repo[1].Repo \o <<"/issues)">> >>
    ELSE <<>>

build_issue_response_for_project(issues, project_id, github_repo) ==
    IF ~TruthyOpt(issues) THEN <<>>
    ELSE build_issue_response(
            First(issues[1], {x \in Range(issues[1]) : x.ProjectId = project_id}),
            github_repo)

-----------------------------------------------------------------------------
(* DashboardRenderer: the space dashboard *)

get_env_name_ReturnsId(dashboard, environment_id) ==
    LET environment == First(dashboard.Environments,
                             {e \in Range(dashboard.Environments) : e.Id = environment_id})
    IN  IF environment = Nothing THEN None ELSE environment[1].Id

\* the caller has checked that the dashboard has the key Environments
get_env_name(dashboard, environment_id) ==
    LET environment == First(dashboard.Environments,
                             {e \in Range(dashboard.Environments) : e.Id = environment_id})
    IN  IF environment = Nothing THEN None ELSE environment[1].Name

MatchingDeployments_AnyProject(a, project, environment) ==
    Filter(a.dashboard.Items,
           {d \in Range(a.dashboard.Items) : d.EnvironmentId = environment})

\* lines 106-108: the deployments of one project to one environment
MatchingDeployments(a, project, environment) ==
    Filter(a.dashboard.Items,
           {d \in Range(a.dashboard.Items) :
               d.ProjectId = project.Id /\ d.EnvironmentId = environment})

\* lines 105-126: the cell of one project and one environment of its group
DeploymentCell(a, project, environment) ==
    LET deployment == MatchingDeployments(a, project, environment)
    IN  IF Len(deployment) > 0
        THEN LET last_deployment == deployment[1]
                 created == parse_unknown_format_date(last_deployment.Created)
                 difference == get_date_difference_summary(a.now - created)
                 icon == get_state_icon(last_deployment.State,
                                        last_deployment.HasWarningsOrErrors)
                 url == build_deployment_url(a.octopus_url, a.space_id,
                                             last_deployment.ProjectId,
                                             last_deployment.ReleaseVersion,
                                             last_deployment.DeploymentId)
                 messages == << icon \o <<" ", "[">> \o last_deployment.ReleaseVersion
                                \o <<"]", "(">> \o url \o <<")">>,
                                <<Clock, " ">> \o difference \o <<" ", "ago">> >>
             IN  <<"|", " ">> \o Join(messages, <<BR>>)
        ELSE <<"|", " ", Placeholder, " ">>

RECURSIVE DeploymentCells_Reversed(_, _, _)
DeploymentCells_Reversed(a, project, environment_ids) ==
    IF environment_ids = <<>> THEN <<>>
    ELSE DeploymentCells_Reversed(a, project, Tail(environment_ids))
         \o DeploymentCell(a, project, environment_ids[1])

RECURSIVE DeploymentCells(_, _, _)
DeploymentCells(a, project, environment_ids) ==
    IF environment_ids = <<>> THEN <<>>
    ELSE DeploymentCell(a, project, environment_ids[1])
         \o DeploymentCells(a, project, Tail(environment_ids))

\* lines 86-102: the GitHub cell of a project, when github_actions_status is given
GithubCell(a, project) ==
    LET github_repo ==
            IF TruthyOpt(a.github_actions)
            THEN First(a.github_actions[1],
                       {x \in Range(a.github_actions[1]) :
                           x.ProjectId = project.Id /\ Truthy(x.Repo) /\ Truthy(x.Owner)})
            ELSE Nothing
    IN  IF TruthyOpt(a.github_actions_status)
        THEN LET github_messages ==
                     build_repo_link(github_repo)
                     \o get_project_workflow_status(a.github_actions_status, project.Id,
                                                    a.now_status)
                     \o build_pr_response_for_project(a.pull_requests, project.Id, github_repo)
                     \o build_issue_response_for_project(a.issues, project.Id, github_repo)
             IN  IF github_messages # <<>>
                 THEN <<"|", " ">> \o Join(github_messages, <<BR>>)
                 ELSE <<"|", " ", Placeholder, " ">>
        ELSE <<>>

\* lines 83-128: the body row of one project
ProjectRow(a, project_group, project) ==
    IF project_group.EnvironmentIds # <<>> /\ "Items" \notin DOMAIN a.dashboard
    THEN Raised("KeyError")
    ELSE Returned(<<"|", " ">> \o project.Name \o <<" ">>
                  \o GithubCell(a, project)
                  \o DeploymentCells(a, project, project_group.EnvironmentIds)
                  \o <<"|", LF>>)

RECURSIVE ProjectRows(_, _, _)
ProjectRows(a, project_group, projects) ==
    IF projects = <<>> THEN Returned(<<>>)
    ELSE LET row == ProjectRow(a, project_group, projects[1])
         IN  IF row.raised # "" THEN row
             ELSE LET rest == ProjectRows(a, project_group, Tail(projects))
                  IN  IF rest.raised # "" THEN rest
                      ELSE Returned(row.value \o rest.value)

GroupColumns_NoGithub(a, project_group) ==
    [i \in 1..Len(project_group.EnvironmentIds) |->
        get_env_name(a.dashboard, project_group.EnvironmentIds[i])]

\* lines 69-75: the columns of the header row of a project group after its name
GroupColumns(a, project_group) ==
    (IF TruthyOpt(a.github_actions_status) THEN <<Str("GitHub")>> ELSE <<>>)
    \o [i \in 1..Len(project_group.EnvironmentIds) |->
            get_env_name(a.dashboard, project_group.EnvironmentIds[i])]

\* lines 67-129: the table of one project group
GroupTable(a, project_group) ==
    IF project_group.EnvironmentIds # <<>> /\ "Environments" \notin DOMAIN a.dashboard
    THEN Raised("KeyError")
    ELSE LET columns == <<project_group.Name>> \o GroupColumns(a, project_group)
             header == build_markdown_table_row(columns)
         IN  IF header.raised # "" THEN header
             ELSE IF "Projects" \notin DOMAIN a.dashboard THEN Raised("KeyError")
             ELSE LET projects == Filter(a.dashboard.Projects,
                                         {p \in Range(a.dashboard.Projects) :
                                             p.ProjectGroupId = project_group.Id})
                      rows == ProjectRows(a, project_group, projects)
                  IN  IF rows.raised # "" THEN rows
                      ELSE Returned(header.value
                                    \o build_markdown_table_header_separator(Len(columns))
                                    \o rows.value \o <<LF>>)

RECURSIVE GroupTables(_, _)
GroupTables(a, project_groups) ==
    IF project_groups = <<>> THEN Returned(<<>>)
    ELSE LET t == GroupTable(a, project_groups[1])
         IN  IF t.raised # "" THEN t
             ELSE LET rest == GroupTables(a, Tail(project_groups))
                  IN  IF rest.raised # "" THEN rest
                      ELSE Returned(t.value \o rest.value)

\* a holds the arguments and the two readings of the clock: now (line 64) and
\* now_status (line 404, read by get_project_workflow_status)
get_dashboard_response(a) ==
    IF "ProjectGroups" \notin DOMAIN a.dashboard THEN Raised("KeyError")
    ELSE LET tables == GroupTables(a, a.dashboard.ProjectGroups)
         IN  IF tables.raised # "" THEN tables
             ELSE Returned(<<"#", " ">> \o a.space_name \o <<LF, LF>> \o tables.value)

-----------------------------------------------------------------------------
(* DashboardRenderer: the project dashboard *)

\* domain.sanitizers.sanitized_list.yield_first: the first item of an iterable,
\* if it has one
yield_first(xs) == IF xs = <<>> THEN <<>> ELSE <<xs[1]>>

MatchingWorkflowRuns_UrlNotRequired(release_workflow_runs, release_id) ==
    LET runs == OrEmpty(release_workflow_runs)
    IN  Filter(runs, {x \in Range(runs) :
                         x.ReleaseId = release_id /\ Truthy(Get(x, "ShortSha"))})

\* lines 172-174 and 267-269: the filter handed to yield_first
MatchingWorkflowRuns(release_workflow_runs, release_id) ==
    LET runs == OrEmpty(release_workflow_runs)
    IN  Filter(runs, {x \in Range(runs) :
                         /\ x.ReleaseId = release_id
                         /\ Truthy(Get(x, "ShortSha")) /\ Truthy(Get(x, "Url"))})

\* lines 177-178 and 272-273: the line of a workflow run
WorkflowRunLine(x) ==
    get_github_state_icon(Get(x, "Status"), Get(x, "Conclusion"))
    \o <<" ", "[">> \o Get(x, "Name") \o <<" ">> \o Get(x, "ShortSha")
    \o <<"]", "(">> \o Get(x, "Url") \o <<")">>

\* lines 176-179 and 271-274: the lines of the runs that yield_first lets through
WorkflowRunLines(release_workflow_runs, release_id) ==
    LET matching_releases == yield_first(MatchingWorkflowRuns(release_workflow_runs, release_id))
    IN  [i \in 1..Len(matching_releases) |-> WorkflowRunLine(matching_releases[i])]

\* lines 182-184 and 277-279: the highlights of a deployment
HighlightLines(deployment_highlights, deployment) ==
    LET all == OrEmpty(deployment_highlights)
        mine == Filter(all, {x \in Range(all) : x.DeploymentId = deployment.DeploymentId})
    IN  [i \in 1..Len(mine) |-> mine[i].Highlights]

\* lines 162-186: the cell of one deployment of a release
ReleaseDeploymentCell(a, release, deployment) ==
    LET created == parse_unknown_format_date(deployment.Created)
        difference == get_date_difference_summary(a.now - created)
        icon == get_state_icon(deployment.State, deployment.HasWarningsOrErrors)
        release_url == build_deployment_url(a.octopus_url, a.space_id, deployment.ProjectId,
                                            deployment.ReleaseVersion, deployment.DeploymentId)
        messages == << icon \o <<" ", "[">> \o deployment.ReleaseVersion
                       \o <<"]", "(">> \o release_url \o <<")">>,
                       <<Clock, " ">> \o difference \o <<" ", "ago">> >>
                    \o WorkflowRunLines(a.release_workflow_runs, release.Release.Id)
                    \o HighlightLines(a.deployment_highlights, deployment)
    IN  <<"|", " ">> \o Join(messages, <<BR>>)

RECURSIVE ReleaseDeploymentCells(_, _, _)
ReleaseDeploymentCells(a, release, deployments) ==
    IF deployments = <<>> THEN <<>>
    ELSE ReleaseDeploymentCell(a, release, deployments[1])
         \o ReleaseDeploymentCells(a, release, Tail(deployments))

\* lines 159-188: the cells of one environment, release by release
RECURSIVE EnvironmentCells(_, _, _)
EnvironmentCells(a, environment, releases) ==
    IF releases = <<>> THEN <<>>
    ELSE (IF environment.Id \in DOMAIN releases[1].Deployments
          THEN ReleaseDeploymentCells(a, releases[1], releases[1].Deployments[environment.Id])
          ELSE <<"|", " ", Placeholder, " ">>)
         \o EnvironmentCells(a, environment, Tail(releases))

RECURSIVE DataSection(_, _, _)
DataSection(a, environments, releases) ==
    IF environments = <<>> THEN <<>>
    ELSE EnvironmentCells(a, environments[1], releases)
         \o DataSection(a, Tail(environments), releases)

\* lines 145-152 and 229-236: the lines above the table
EnrichmentHeader(a) ==
    LET message == build_repo_link(a.github_repo)
                   \o get_project_workflow_status(a.github_actions_statuses, a.project_id,
                                                  a.now_status)
                   \o build_pr_response(a.pull_requests, a.github_repo)
                   \o build_issue_response(a.issues, a.github_repo)
    IN  IF message # <<>> THEN Join(message, <<BR>>) \o <<LF, LF>> ELSE <<>>

\* a holds the arguments and the two readings of the clock: now (line 141) and
\* now_status (line 404)
get_project_dashboard_response(a) ==
    IF "Environments" \notin DOMAIN a.dashboard THEN Raised("KeyError")
    ELSE LET environments == a.dashboard.Environments
             environment_names == [i \in 1..Len(environments) |-> environments[i].Name]
         IN  IF environments # <<>> /\ "Releases" \notin DOMAIN a.dashboard
             THEN Raised("KeyError")
             ELSE Returned(<<"#", " ">> \o a.space_name \o <<" ", "/", " ">> \o a.project_name
                           \o <<LF, LF>>
                           \o EnrichmentHeader(a)
                           \o build_markdown_table_row(environment_names).value
                           \o build_markdown_table_header_separator(Len(environment_names))
                           \o DataSection(a, environments, a.dashboard.Releases)
                           \o <<"|", " ", " ">>)

-----------------------------------------------------------------------------
(* DashboardRenderer: the tenant progression of a project *)

\* tenant.get("ProjectEnvironments", {}).get(project_id, [])
TenantProjectEnvironments(tenant, project_id) ==
    IF "ProjectEnvironments" \in DOMAIN tenant
    THEN (IF project_id \in DOMAIN tenant.ProjectEnvironments
          THEN tenant.ProjectEnvironments[project_id] ELSE <<>>)
    ELSE <<>>

RECURSIVE TenantEnvironmentIds(_, _, _)
TenantEnvironmentIds(tenant, environments, project_id) ==
    IF environments = <<>> THEN <<>>
    ELSE (IF Truthy(Get(tenant, "Id"))
          THEN (IF environments[1].Id \in Range(TenantProjectEnvironments(tenant, project_id))
                THEN <<environments[1].Id>> ELSE <<>>)
          ELSE <<environments[1].Id>>)
         \o TenantEnvironmentIds(tenant, Tail(environments), project_id)

get_tenant_environments_AllowListOrder(tenant, dashboard, project_id) ==
    IF Truthy(Get(tenant, "Id"))
    THEN SelectSeq(TenantProjectEnvironments(tenant, project_id),
                   LAMBDA id : \E e \in Range(dashboard.Environments) : e.Id = id)
    ELSE [i \in 1..Len(dashboard.Environments) |-> dashboard.Environments[i].Id]

get_tenant_environments(tenant, dashboard, project_id) ==
    TenantEnvironmentIds(tenant, dashboard.Environments, project_id)

RECURSIVE get_tenant_environment_details(_, _)
get_tenant_environment_details(environments_ids, dashboard) ==
    IF environments_ids = <<>> THEN <<>>
    ELSE LET environment_name == get_env_name(dashboard, environments_ids[1])
         IN  (IF Truthy(environment_name)
              THEN <<[Name |-> environment_name, Id |-> environments_ids[1]]>>
              ELSE <<>>)
             \o get_tenant_environment_details(Tail(environments_ids), dashboard)

TenantMatches_BothFalsy(deployment, tenant) ==
    \/ Get(deployment, "TenantId") = Get(tenant, "Id")
    \/ ~Truthy(Get(deployment, "TenantId")) /\ ~Truthy(Get(tenant, "Id"))

\* line 252: deployment.get("TenantId") == tenant.get("Id")
TenantMatches(deployment, tenant) == Get(deployment, "TenantId") = Get(tenant, "Id")

\* lines 255-281: the cell of a deployment; get_channel_cached is the channel
\* lookup of infrastructure.octopus, a table from channel id to channel here
TenantDeploymentCell(a, deployment) ==
    LET icon == get_state_icon(deployment.State, deployment.HasWarningsOrErrors)
        created == parse_unknown_format_date(deployment.Created)
        difference == get_date_difference_summary(a.now - created)
        channel == a.get_channel_cached[deployment.ChannelId]
        release_url == build_deployment_url(a.url, a.space_id, deployment.ProjectId,
                                            deployment.ReleaseVersion, deployment.DeploymentId)
        messages == << icon \o <<" ", "[">> \o deployment.ReleaseVersion
                       \o <<"]", "(">> \o release_url \o <<")">>,
                       <<"(shuffle)", " ">> \o channel.Name,
                       <<Clock, " ">> \o difference \o <<" ", "ago">> >>
                    \o WorkflowRunLines(a.release_workflow_runs, deployment.ReleaseId)
                    \o HighlightLines(a.deployment_highlights, deployment)
    IN  Join(messages, <<BR>>)

TenantColumn_LastMatch(a, tenant, environment) ==
    LET items == a.dashboard.Items
        matching == Filter(items, {deployment \in Range(items) :
                                      /\ Get(deployment, "EnvironmentId") = environment.Id
                                      /\ TenantMatches(deployment, tenant)})
    IN  IF matching = <<>> THEN <<Placeholder>>
        ELSE TenantDeploymentCell(a, matching[Len(matching)])

\* lines 248-286: the column of one environment of a tenant
TenantColumn(a, tenant, environment) ==
    LET items == a.dashboard.Items
        found == First(items, {deployment \in Range(items) :
                                  /\ Get(deployment, "EnvironmentId") = environment.Id
                                  /\ TenantMatches(deployment, tenant)})
    IN  IF found = Nothing THEN <<Placeholder>> ELSE TenantDeploymentCell(a, found[1])

\* lines 239-293: the section of one tenant
TenantSection(a, tenant) ==
    IF "Environments" \notin DOMAIN a.dashboard THEN Raised("KeyError")
    ELSE LET environments_ids == get_tenant_environments(tenant, a.dashboard, a.project_id)
             environments == get_tenant_environment_details(environments_ids, a.dashboard)
             environment_names == [i \in 1..Len(environments) |-> environments[i].Name]
         IN  IF environments # <<>> /\ "Items" \notin DOMAIN a.dashboard
             THEN Raised("KeyError")
             ELSE LET columns == [i \in 1..Len(environments) |->
                                     TenantColumn(a, tenant, environments[i])]
                  IN  Returned(<<"##", " ">> \o tenant.Name \o <<LF>>
                               \o build_markdown_table_row(environment_names).value
                               \o build_markdown_table_header_separator(Len(environments))
                               \o (IF columns # <<>>
                                   THEN build_markdown_table_row(columns).value
                                   ELSE <<LF, "No deployments">>)
                               \o <<LF, LF>>)

RECURSIVE TenantSections(_, _)
TenantSections(a, tenants) ==
    IF tenants = <<>> THEN Returned(<<>>)
    ELSE LET section == TenantSection(a, tenants[1])
         IN  IF section.raised # "" THEN section
             ELSE LET rest == TenantSections(a, Tail(tenants))
                  IN  IF rest.raised # "" THEN rest
                      ELSE Returned(section.value \o rest.value)

\* a holds the arguments and the two readings of the clock: now (line 225) and
\* now_status (line 404)
get_project_tenant_progression_response(a) ==
    IF "Tenants" \notin DOMAIN a.dashboard THEN Raised("KeyError")
    ELSE LET sections == TenantSections(a, a.dashboard.Tenants)
         IN  IF sections.raised # "" THEN sections
             ELSE Returned(<<"#", " ">> \o a.space_name \o <<" ", "/", " ">> \o a.project_name
                           \o <<LF, LF>>
                           \o EnrichmentHeader(a)
                           \o sections.value)

-----------------------------------------------------------------------------
(* DashboardRenderer: the runbook dashboard                                *)
(* RunbookRuns is a dict from environment id to a list of runs; the model  *)
(* keeps it as the list of its items, [Id, Runs], in iteration order.      *)

\* get_tenant is the tenant name lookup of the caller
build_runbook_run_columns(run, now, get_tenant) ==
    LET tenant_name == IF ~Truthy(run.TenantId) THEN Str("Untenanted")
                       ELSE get_tenant[run.TenantId]
        created == parse_unknown_format_date(run.Created)
        difference == get_date_difference_summary(now - created)
        icon == get_state_icon(run.State, run.HasWarningsOrErrors)
    IN  <<tenant_name, icon \o <<" ">> \o difference \o <<" ", "ago">> >>

RECURSIVE AddTenants_EmptyKept(_, _)
AddTenants_EmptyKept(tenants, runs) ==
    IF runs = <<>> THEN tenants
    ELSE LET tenant == IF runs[1].TenantId = None THEN Str("Untenanted")
                       ELSE runs[1].TenantId
         IN  AddTenants_EmptyKept(IF tenant \in Range(tenants) THEN tenants
                                  ELSE Append(tenants, tenant),
                                  Tail(runs))

\* lines 309-312: the tenants of a list of runs that are not in tenants yet
RECURSIVE AddTenants(_, _)
AddTenants(tenants, runs) ==
    IF runs = <<>> THEN tenants
    ELSE LET tenant == IF ~Truthy(runs[1].TenantId) THEN Str("Untenanted")
                       ELSE runs[1].TenantId
         IN  AddTenants(IF tenant \in Range(tenants) THEN tenants
                        ELSE Append(tenants, tenant),
                        Tail(runs))

RECURSIVE TenantsFrom(_, _)
TenantsFrom(tenants, runbook_runs) ==
    IF runbook_runs = <<>> THEN tenants
    ELSE TenantsFrom(AddTenants(tenants, runbook_runs[1].Runs), Tail(runbook_runs))

get_tenants(dashboard) == TenantsFrom(<<>>, dashboard.RunbookRuns)

\* lines 335-336: one row per run
RECURSIVE RunRows(_, _, _)
RunRows(runs, now, get_tenant) ==
    IF runs = <<>> THEN <<>>
    ELSE build_markdown_table_row(build_runbook_run_columns(runs[1], now, get_tenant)).value
         \o RunRows(Tail(runs), now, get_tenant)

RECURSIVE TenantRunRows_OneRowPerTenant(_, _, _, _)
TenantRunRows_OneRowPerTenant(tenant, runbook_runs, now, get_tenant) ==
    IF runbook_runs = <<>> THEN <<>>
    ELSE LET all == runbook_runs[1].Runs
             runs == Filter(all, {run \in Range(all) :
                                     \/ run.TenantId = tenant
                                     \/ ~Truthy(run.TenantId) /\ tenant = Str("Untenanted")})
         IN  RunRows(SubSeq(runs, 1, 1), now, get_tenant)
             \o TenantRunRows_OneRowPerTenant(tenant, Tail(runbook_runs), now, get_tenant)

\* lines 331-336: the rows of one tenant, environment by environment
RECURSIVE TenantRunRows(_, _, _, _)
TenantRunRows(tenant, runbook_runs, now, get_tenant) ==
    IF runbook_runs = <<>> THEN <<>>
    ELSE LET all == runbook_runs[1].Runs
             runs == Filter(all, {run \in Range(all) :
                                     \/ run.TenantId = tenant
                                     \/ ~Truthy(run.TenantId) /\ tenant = Str("Untenanted")})
         IN  RunRows(runs, now, get_tenant)
             \o TenantRunRows(tenant, Tail(runbook_runs), now, get_tenant)

RECURSIVE ExecutionRows(_, _, _, _)
ExecutionRows(tenants, runbook_runs, now, get_tenant) ==
    IF tenants = <<>> THEN <<>>
    ELSE TenantRunRows(tenants[1], runbook_runs, now, get_tenant)
         \o ExecutionRows(Tail(tenants), runbook_runs, now, get_tenant)

\* a holds the arguments and now, the clock read at line 317
get_runbook_dashboard_response(a) ==
    IF "RunbookRuns" \notin DOMAIN a.dashboard THEN Raised("KeyError")
    ELSE LET runbook_runs == a.dashboard.RunbookRuns
             tenants == get_tenants(a.dashboard)
             environment_ids == [i \in 1..Len(runbook_runs) |-> runbook_runs[i].Id]
         IN  IF environment_ids # <<>> /\ "Environments" \notin DOMAIN a.dashboard
             THEN Raised("KeyError")
             ELSE LET environment_names ==
                          [i \in 1..Len(environment_ids) |->
                              get_env_name(a.dashboard, environment_ids[i])]
                      columns == << <<>> >> \o environment_names
                      header == build_markdown_table_row(columns)
                  IN  IF header.raised # "" THEN header
                      ELSE Returned(a.project.Name \o <<" ", "/", " ">> \o a.runbook.Name
                                    \o <<LF, LF>>
                                    \o header.value
                                    \o build_markdown_table_header_separator(Len(columns))
                                    \o ExecutionRows(tenants, runbook_runs, a.now,
                                                     a.get_tenant))

-----------------------------------------------------------------------------
(* The helper functions, each called on inputs drawn by the initial state *)

MaxColumns == 3

States ==
    {Str(s) : s \in {"Executing", "Success", "Failed", "Canceled", "TimedOut",
                     "Cancelling", "Queued", "Paused", "success"}} \cup {<<>>, None}

Statuses ==
    {Str(s) : s \in {"in_progress", "queued", "completed", "waiting"}} \cup {<<>>, None}

Conclusions ==
    {Str(s) : s \in {"success", "failure", "timed_out", "action_required", "cancelled",
                     "neutral", "skipped", "stale"}} \cup {<<>>, None}

\* cell texts without a pipe
Cells == {Str("Default"), Str("Dev"), <<>>, <<"Web", " ", "App">>}

HelperCalls ==
    [op : {"get_state_icon"}, state : States, has_warnings : BOOLEAN]
    \cup [op : {"get_github_state_icon"}, status : Statuses, conclusion : Conclusions]
    \cup [op : {"build_markdown_table_header_separator"}, count : 0..MaxColumns]
    \cup [op : {"build_markdown_table_row"}, columns : SeqsUpTo(Cells, MaxColumns)]

HelpersInit ==
    /\ pc = "call"
    /\ args \in HelperCalls
    /\ op = args.op
    /\ result = <<>>

CallGetStateIcon ==
    /\ pc = "call" /\ op = "get_state_icon"
    /\ result' = get_state_icon(args.state, args.has_warnings)
    /\ pc' = "done"
    /\ UNCHANGED <<op, args>>

CallGetGithubStateIcon ==
    /\ pc = "call" /\ op = "get_github_state_icon"
    /\ result' = get_github_state_icon(args.status, args.conclusion)
    /\ pc' = "done"
    /\ UNCHANGED <<op, args>>

CallBuildMarkdownTableHeaderSeparator ==
    /\ pc = "call" /\ op = "build_markdown_table_header_separator"
    /\ result' = build_markdown_table_header_separator(args.count)
    /\ pc' = "done"
    /\ UNCHANGED <<op, args>>

CallBuildMarkdownTableRow ==
    /\ pc = "call" /\ op = "build_markdown_table_row"
    /\ result' = build_markdown_table_row(args.columns)
    /\ pc' = "done"
    /\ UNCHANGED <<op, args>>

HelpersNext ==
    \/ CallGetStateIcon
    \/ CallGetGithubStateIcon
    \/ CallBuildMarkdownTableHeaderSeparator
    \/ CallBuildMarkdownTableRow

SpecHelpers == HelpersInit /\ [][HelpersNext]_vars

Done(f) == pc = "done" /\ op = f

-----------------------------------------------------------------------------
(* The space dashboard, called on inputs drawn by the initial state *)

MaxItems == 2

EnvironmentIds == {Str("E1"), Str("E2")}

Environment(id) == [Id |-> id, Name |-> IF id = Str("E1") THEN Str("Dev") ELSE Str("Test")]

\* the Environments lists: both orders, and one that lacks E2
EnvironmentLists ==
    { <<Environment(Str("E1")), Environment(Str("E2"))>>,
      <<Environment(Str("E2")), Environment(Str("E1"))>>,
      <<Environment(Str("E1"))>> }

DefaultGroup(environment_ids) ==
    [Id |-> Str("PG1"), Name |-> Str("Default"), EnvironmentIds |-> environment_ids]

OtherGroup == [Id |-> Str("PG2"), Name |-> Str("Other"), EnvironmentIds |-> <<Str("E1")>>]

GroupEnvironmentIds == SeqsUpTo(EnvironmentIds, 2)

ProjectGroupLists ==
    {<<>>}
    \cup {<<DefaultGroup(ids)>> : ids \in GroupEnvironmentIds}
    \cup {<<OtherGroup, DefaultGroup(ids)>> : ids \in GroupEnvironmentIds}

WebApp == [Id |-> Str("P1"), Name |-> Str("WebApp"), ProjectGroupId |-> Str("PG1")]
Api == [Id |-> Str("P2"), Name |-> Str("Api"), ProjectGroupId |-> Str("PG1")]
Batch == [Id |-> Str("P3"), Name |-> Str("Batch"), ProjectGroupId |-> Str("PG2")]

ProjectLists == {<<>>, <<WebApp>>, <<WebApp, Api>>, <<Api, WebApp>>, <<Batch, WebApp>>}

Deployment(id, project, environment, version, state, warnings) ==
    [DeploymentId |-> Str(id), ProjectId |-> Str(project), EnvironmentId |-> Str(environment),
     ReleaseVersion |-> Str(version), State |-> Str(state), HasWarningsOrErrors |-> warnings,
     Created |-> 0]

Deployments ==
    { Deployment("D1", "P1", "E1", "1.0.0", "Success", FALSE),
      Deployment("D2", "P1", "E1", "1.0.1", "Failed", TRUE),
      Deployment("D3", "P2", "E2", "2.0.0", "Executing", FALSE) }

ItemLists == SeqsUpTo(Deployments, MaxItems)

DashboardKeys == {"Environments", "ProjectGroups", "Projects", "Items"}

\* a dashboard from which the key k is absent
WithoutKey(dashboard, k) == [key \in DOMAIN dashboard \ {k} |-> dashboard[key]]

IncompleteDashboards ==
    {WithoutKey(d, k) :
        d \in [Environments : {<<Environment(Str("E1")), Environment(Str("E2"))>>},
               ProjectGroups : {<<>>, <<DefaultGroup(<<>>)>>, <<DefaultGroup(<<Str("E1")>>)>>},
               Projects : {<<>>, <<WebApp>>},
               Items : SeqsUpTo(Deployments, 1)],
        k \in DashboardKeys}

Dashboards ==
    [Environments : EnvironmentLists, ProjectGroups : ProjectGroupLists,
     Projects : ProjectLists, Items : ItemLists]
    \cup IncompleteDashboards

WebAppRepo == [ProjectId |-> Str("P1"), Owner |-> Str("acme"), Repo |-> Str("webapp")]

WebAppStatus ==
    [ProjectId |-> Str("P1"), Status |-> Str("completed"), Conclusion |-> Str("success"),
     Name |-> Str("build"), ShortSha |-> Str("abc1234"), Url |-> Str("https://ci/1"),
     CreatedAt |-> 0]

\* a status without the optional keys Conclusion and CreatedAt
ApiStatus ==
    [ProjectId |-> Str("P2"), Status |-> Str("in_progress"), Name |-> Str("deploy"),
     ShortSha |-> Str("def5678"), Url |-> Str("https://ci/2")]

SpaceCalls ==
    [op : {"get_dashboard_response"},
     octopus_url : {Str("https://octopus")}, space_id : {Str("Spaces-1")},
     space_name : {Str("Main")},
     dashboard : Dashboards,
     github_actions : {Nothing, Some(<<WebAppRepo>>)},
     github_actions_status : {Nothing, Some(<<>>), Some(<<WebAppStatus>>), Some(<<ApiStatus>>)},
     pull_requests : {Nothing, Some(<<[ProjectId |-> Str("P1"), Count |-> 1]>>)},
     issues : {Nothing, Some(<<[ProjectId |-> Str("P1"), Count |-> 2]>>)},
     now : {3600}, now_status : {3600}]

SpaceInit ==
    /\ pc = "call"
    /\ args \in SpaceCalls
    /\ op = args.op
    /\ result = <<>>

CallGetDashboardResponse ==
    /\ pc = "call" /\ op = "get_dashboard_response"
    /\ result' = get_dashboard_response(args)
    /\ pc' = "done"
    /\ UNCHANGED <<op, args>>

SpaceNext == CallGetDashboardResponse

SpecSpace == SpaceInit /\ [][SpaceNext]_vars

-----------------------------------------------------------------------------
(* The project dashboard and the tenant progression, called on inputs drawn *)
(* by the initial state                                                     *)

MaxReleases == 2

MaxWorkflowRuns == 2

ReleaseIds == {Str("Releases-1"), Str("Releases-2")}

ReleaseVersion(release_id) == IF release_id = Str("Releases-1") THEN Str("1.0.0") ELSE Str("1.0.1")

\* the deployment of a release to an environment for a tenant (None: untenanted)
ReleaseDeployment(release_id, environment_id, tenant_id) ==
    [DeploymentId |-> Str("Deployments-" \o release_id[1] \o "-" \o environment_id[1] \o "-"
                          \o (IF tenant_id = <<>> THEN "blank" ELSE tenant_id[1])),
     ProjectId |-> Str("P1"), EnvironmentId |-> environment_id, ReleaseId |-> release_id,
     ReleaseVersion |-> ReleaseVersion(release_id), TenantId |-> tenant_id,
     State |-> IF release_id = Str("Releases-1") THEN Str("Success") ELSE Str("Failed"),
     HasWarningsOrErrors |-> FALSE, Created |-> 0, ChannelId |-> Str("Channels-1")]

\* the Deployments of release 1: no environment, E1, E1 and E2, or E2 with an
\* empty list; release 2 is deployed to E1
Releases ==
    {[Release |-> [Id |-> Str("Releases-1")], Deployments |-> m] :
        m \in { <<>>,
                [e \in {Str("E1")} |-> <<ReleaseDeployment(Str("Releases-1"), e, None)>>],
                [e \in EnvironmentIds |-> <<ReleaseDeployment(Str("Releases-1"), e, None)>>],
                [e \in {Str("E2")} |-> <<>>] }}
    \cup {[Release |-> [Id |-> Str("Releases-2")],
           Deployments |-> [e \in {Str("E1")} |->
                               <<ReleaseDeployment(Str("Releases-2"), e, None)>>]]}

ProjectDashboards ==
    [Environments : {<<>>, <<Environment(Str("E1"))>>,
                     <<Environment(Str("E1")), Environment(Str("E2"))>>},
     Releases : DistinctSeqsUpTo(Releases, MaxReleases)]
    \cup [Environments : {<<>>, <<Environment(Str("E1"))>>}]
    \cup [Releases : {<<>>}]

\* workflow runs: two complete ones of release 1, one without a Url, one with an
\* empty ShortSha, and a complete one of release 2
WorkflowRuns ==
    { [ReleaseId |-> Str("Releases-1"), Name |-> Str("build"), ShortSha |-> Str("abc1234"),
       Url |-> Str("https://ci/1"), Status |-> Str("completed"), Conclusion |-> Str("success")],
      [ReleaseId |-> Str("Releases-1"), Name |-> Str("test"), ShortSha |-> Str("def5678"),
       Url |-> Str("https://ci/2"), Status |-> Str("in_progress")],
      [ReleaseId |-> Str("Releases-1"), Name |-> Str("lint"), ShortSha |-> Str("9876543")],
      [ReleaseId |-> Str("Releases-1"), Name |-> Str("scan"), ShortSha |-> <<>>,
       Url |-> Str("https://ci/4")],
      [ReleaseId |-> Str("Releases-2"), Name |-> Str("build"), ShortSha |-> Str("fedcba9"),
       Url |-> Str("https://ci/3"), Status |-> Str("completed"), Conclusion |-> Str("failure")] }

WorkflowRunLists == {Nothing} \cup {Some(runs) : runs \in DistinctSeqsUpTo(WorkflowRuns, MaxWorkflowRuns)}

Highlights ==
    << [DeploymentId |-> ReleaseDeployment(Str("Releases-1"), Str("E1"), None).DeploymentId,
        Highlights |-> Str("Step 2 failed")],
       [DeploymentId |-> ReleaseDeployment(Str("Releases-2"), Str("E1"), None).DeploymentId,
        Highlights |-> Str("Timeout")],
       [DeploymentId |-> ReleaseDeployment(Str("Releases-1"), Str("E1"), None).DeploymentId,
        Highlights |-> Str("Retried")] >>

\* the enrichment other than the workflow runs: none of it, or all of it
Enrichments ==
    { [github_repo |-> Nothing, github_actions_statuses |-> Nothing,
       pull_requests |-> Nothing, issues |-> Nothing, deployment_highlights |-> Nothing],
      [github_repo |-> Some([Owner |-> Str("acme"), Repo |-> Str("webapp")]),
       github_actions_statuses |-> Some(<<WebAppStatus>>),
       pull_requests |-> Some([Count |-> 1]), issues |-> Some([Count |-> 2]),
       deployment_highlights |-> Some(Highlights)] }

ProjectDashboardCalls ==
    { [op |-> "get_project_dashboard_response",
       octopus_url |-> Str("https://octopus"), space_id |-> Str("Spaces-1"),
       space_name |-> Str("Main"), project_name |-> Str("WebApp"), project_id |-> Str("P1"),
       dashboard |-> d,
       github_repo |-> h.github_repo, github_actions_statuses |-> h.github_actions_statuses,
       pull_requests |-> h.pull_requests, issues |-> h.issues,
       release_workflow_runs |-> w, deployment_highlights |-> h.deployment_highlights,
       now |-> 3600, now_status |-> 3600] :
      d \in ProjectDashboards, h \in Enrichments, w \in WorkflowRunLists }

\* tenants: two untenanted entries (no Id, Id None), one with an empty Id, one
\* with environments for the project (listed in another order than the
\* dashboard's), one with environments for another project only
Untenanted == [Name |-> Str("Untenanted")]
UntenantedNone == [Name |-> Str("Untenanted"), Id |-> None]
Blank == [Name |-> Str("Blank"), Id |-> <<>>]
Acme ==
    [Name |-> Str("Acme"), Id |-> Str("Tenants-1"),
     ProjectEnvironments |-> [p \in {Str("P1")} |-> <<Str("E2"), Str("E1")>>]]
Globex ==
    [Name |-> Str("Globex"), Id |-> Str("Tenants-2"),
     ProjectEnvironments |-> [p \in {Str("P2")} |-> <<Str("E1")>>]]

TenantLists ==
    { <<>>, <<Untenanted>>, <<Blank, UntenantedNone>>, <<Acme, Blank>>,
      <<Untenanted, Acme>>, <<Globex, Acme, Untenanted>> }

\* a deployment without the key TenantId
WithoutTenantId(deployment) ==
    [key \in DOMAIN deployment \ {"TenantId"} |-> deployment[key]]

TenantDeployments ==
    { ReleaseDeployment(Str("Releases-1"), Str("E1"), None),
      WithoutTenantId(ReleaseDeployment(Str("Releases-2"), Str("E1"), None)),
      ReleaseDeployment(Str("Releases-2"), Str("E1"), Str("Tenants-1")),
      ReleaseDeployment(Str("Releases-1"), Str("E2"), <<>>) }

TenantDashboards ==
    [Environments : {<<Environment(Str("E1")), Environment(Str("E2"))>>},
     Tenants : TenantLists, Items : DistinctSeqsUpTo(TenantDeployments, MaxItems)]
    \cup [Tenants : {<<>>, <<Untenanted>>}, Items : {<<>>}]
    \cup [Tenants : {<<>>, <<Untenanted>>, <<Globex>>},
          Environments : {<<Environment(Str("E1"))>>}]
    \cup [Environments : {<<Environment(Str("E1"))>>}, Items : {<<>>}]

TenantProgressionCalls ==
    { [op |-> "get_project_tenant_progression_response",
       space_id |-> Str("Spaces-1"), space_name |-> Str("Main"),
       project_name |-> Str("WebApp"), project_id |-> Str("P1"),
       dashboard |-> d,
       github_repo |-> h.github_repo, github_actions_statuses |-> h.github_actions_statuses,
       release_workflow_runs |-> w,
       pull_requests |-> h.pull_requests, issues |-> h.issues,
       deployment_highlights |-> h.deployment_highlights,
       api_key |-> Str("API-KEY"), url |-> Str("https://octopus"),
       get_channel_cached |-> [c \in {Str("Channels-1")} |-> [Name |-> Str("Default")]],
       now |-> 3600, now_status |-> 3600] :
      d \in TenantDashboards, h \in Enrichments, w \in WorkflowRunLists }

ProjectCalls == ProjectDashboardCalls \cup TenantProgressionCalls

ProjectInit ==
    /\ pc = "call"
    /\ args \in ProjectCalls
    /\ op = args.op
    /\ result = <<>>

CallGetProjectDashboardResponse ==
    /\ pc = "call" /\ op = "get_project_dashboard_response"
    /\ result' = get_project_dashboard_response(args)
    /\ pc' = "done"
    /\ UNCHANGED <<op, args>>

CallGetProjectTenantProgressionResponse ==
    /\ pc = "call" /\ op = "get_project_tenant_progression_response"
    /\ result' = get_project_tenant_progression_response(args)
    /\ pc' = "done"
    /\ UNCHANGED <<op, args>>

ProjectNext ==
    \/ CallGetProjectDashboardResponse
    \/ CallGetProjectTenantProgressionResponse

SpecProject == ProjectInit /\ [][ProjectNext]_vars

-----------------------------------------------------------------------------
(* The runbook dashboard, called on inputs drawn by the initial state *)

MaxRuns == 2

TenantIds == {Str("Tenants-1"), Str("Tenants-2")}

TenantNames == [id \in TenantIds |-> IF id = Str("Tenants-1") THEN Str("Acme") ELSE Str("Globex")]

RunbookRun(tenant_id, state) ==
    [TenantId |-> tenant_id, State |-> Str(state), HasWarningsOrErrors |-> FALSE, Created |-> 0]

Runs ==
    { RunbookRun(None, "Success"), RunbookRun(<<>>, "Failed"),
      RunbookRun(Str("Tenants-1"), "Executing"), RunbookRun(Str("Tenants-2"), "Queued") }

RunLists == SeqsUpTo(Runs, MaxRuns)

\* RunbookRuns over no, one or both environments, in both orders
RunbookRunsItems ==
    {<<>>}
    \cup {<<[Id |-> e, Runs |-> r]>> : e \in EnvironmentIds, r \in RunLists}
    \cup {<<[Id |-> e[1], Runs |-> r1], [Id |-> e[2], Runs |-> r2]>> :
             e \in {<<Str("E1"), Str("E2")>>, <<Str("E2"), Str("E1")>>},
             r1 \in RunLists, r2 \in RunLists}

RunbookDashboards ==
    [Environments : EnvironmentLists, RunbookRuns : RunbookRunsItems]
    \cup [RunbookRuns : {<<>>, <<[Id |-> Str("E1"), Runs |-> <<>>]>>}]
    \cup [Environments : EnvironmentLists]

RunbookCalls ==
    [op : {"get_runbook_dashboard_response"},
     project : {[Name |-> Str("WebApp")]}, runbook : {[Name |-> Str("Restart")]},
     dashboard : RunbookDashboards, get_tenant : {TenantNames}, now : {3600}]

RunbookInit ==
    /\ pc = "call"
    /\ args \in RunbookCalls
    /\ op = args.op
    /\ result = <<>>

CallGetRunbookDashboardResponse ==
    /\ pc = "call" /\ op = "get_runbook_dashboard_response"
    /\ result' = get_runbook_dashboard_response(args)
    /\ pc' = "done"
    /\ UNCHANGED <<op, args>>

RunbookNext == CallGetRunbookDashboardResponse

SpecRunbook == RunbookInit /\ [][RunbookNext]_vars

-----------------------------------------------------------------------------
(* Two invocations of a render function on the same arguments. Each        *)
(* invocation reads the clock on entry (now) and, where it reports a        *)
(* workflow status, again in get_project_workflow_status (now_status); the  *)
(* clock may have advanced by then.                                         *)

\* the clock on entry of the invocations, in seconds after Created
ClockValues == {59, 3600}

\* by how many seconds the clock may advance within one invocation
MaxClockAdvance == 1

\* the reads of the two invocations: the same now, each with its own later read
ClockReads ==
    {<<[now |-> n, now_status |-> n + d1], [now |-> n, now_status |-> n + d2]>> :
        n \in ClockValues, d1 \in 0..MaxClockAdvance, d2 \in 0..MaxClockAdvance}

RepeatedSpaceCalls ==
    [op : {"get_dashboard_response"},
     octopus_url : {Str("https://octopus")}, space_id : {Str("Spaces-1")},
     space_name : {Str("Main")},
     dashboard : [Environments : {<<Environment(Str("E1")), Environment(Str("E2"))>>},
                  ProjectGroups : {<<DefaultGroup(<<Str("E1")>>)>>},
                  Projects : {<<WebApp>>, <<WebApp, Api>>},
                  Items : SeqsUpTo(Deployments, 1)],
     github_actions : {Nothing, Some(<<WebAppRepo>>)},
     github_actions_status : {Nothing, Some(<<WebAppStatus>>)},
     pull_requests : {Nothing}, issues : {Nothing},
     now : {0}, now_status : {0}]

RepeatedProjectCalls ==
    {c \in ProjectCalls :
        /\ c.release_workflow_runs = Nothing
        /\ IF c.op = "get_project_dashboard_response"
           THEN /\ DOMAIN c.dashboard = {"Environments", "Releases"}
                /\ Len(c.dashboard.Releases) <= 1
           ELSE /\ DOMAIN c.dashboard = {"Environments", "Tenants", "Items"}
                /\ Len(c.dashboard.Items) <= 1}

RepeatedRunbookCalls ==
    {c \in RunbookCalls :
        /\ DOMAIN c.dashboard = {"Environments", "RunbookRuns"}
        /\ Len(c.dashboard.Environments) = 2
        /\ Len(c.dashboard.RunbookRuns) <= 1}

RepeatedCalls ==
    {[op |-> c.op, call |-> c, reads |-> r] :
        c \in RepeatedSpaceCalls \cup RepeatedProjectCalls \cup RepeatedRunbookCalls,
        r \in ClockReads}

\* the arguments of the next invocation, with the clock as that invocation reads it
Invocation ==
    LET read == args.reads[Len(result) + 1]
    IN  IF op = "get_runbook_dashboard_response"
        THEN [args.call EXCEPT !.now = read.now]
        ELSE [args.call EXCEPT !.now = read.now, !.now_status = read.now_status]

RepeatedInit ==
    /\ pc = "call"
    /\ args \in RepeatedCalls
    /\ op = args.op
    /\ result = <<>>

InvokeGetDashboardResponse ==
    /\ pc \in {"call", "again"} /\ op = "get_dashboard_response"
    /\ result' = Append(result, get_dashboard_response(Invocation))
    /\ pc' = IF pc = "call" THEN "again" ELSE "done"
    /\ UNCHANGED <<op, args>>

InvokeGetProjectDashboardResponse ==
    /\ pc \in {"call", "again"} /\ op = "get_project_dashboard_response"
    /\ result' = Append(result, get_project_dashboard_response(Invocation))
    /\ pc' = IF pc = "call" THEN "again" ELSE "done"
    /\ UNCHANGED <<op, args>>

InvokeGetProjectTenantProgressionResponse ==
    /\ pc \in {"call", "again"} /\ op = "get_project_tenant_progression_response"
    /\ result' = Append(result, get_project_tenant_progression_response(Invocation))
    /\ pc' = IF pc = "call" THEN "again" ELSE "done"
    /\ UNCHANGED <<op, args>>

InvokeGetRunbookDashboardResponse ==
    /\ pc \in {"call", "again"} /\ op = "get_runbook_dashboard_response"
    /\ result' = Append(result, get_runbook_dashboard_response(Invocation))
    /\ pc' = IF pc = "call" THEN "again" ELSE "done"
    /\ UNCHANGED <<op, args>>

RepeatedNext ==
    \/ InvokeGetDashboardResponse
    \/ InvokeGetProjectDashboardResponse
    \/ InvokeGetProjectTenantProgressionResponse
    \/ InvokeGetRunbookDashboardResponse

SpecRepeated == RepeatedInit /\ [][RepeatedNext]_vars

-----------------------------------------------------------------------------
(* get_tenant_environments and get_tenants, each called on inputs drawn by *)
(* the initial state                                                        *)

\* a tenant with an id and no ProjectEnvironments
Hooli == [Name |-> Str("Hooli"), Id |-> Str("Tenants-3")]

\* a tenant whose list for P1 names an environment the dashboard may lack, and
\* one environment twice
Initech ==
    [Name |-> Str("Initech"), Id |-> Str("Tenants-4"),
     ProjectEnvironments |-> [p \in {Str("P1")} |-> <<Str("E3"), Str("E2"), Str("E2")>>]]

TenantEnvironmentCalls ==
    [op : {"get_tenant_environments"},
     tenant : {Untenanted, UntenantedNone, Blank, Acme, Globex, Hooli, Initech},
     dashboard : [Environments : SeqsUpTo({Environment(e) : e \in EnvironmentIds}, MaxItems)],
     project_id : {Str("P1"), Str("P2")}]

TenantsCalls ==
    [op : {"get_tenants"}, dashboard : [RunbookRuns : RunbookRunsItems]]

TenantsInit ==
    /\ pc = "call"
    /\ args \in TenantEnvironmentCalls \cup TenantsCalls
    /\ op = args.op
    /\ result = <<>>

CallGetTenantEnvironments ==
    /\ pc = "call" /\ op = "get_tenant_environments"
    /\ result' = Returned(get_tenant_environments(args.tenant, args.dashboard, args.project_id))
    /\ pc' = "done"
    /\ UNCHANGED <<op, args>>

CallGetTenants ==
    /\ pc = "call" /\ op = "get_tenants"
    /\ result' = Returned(get_tenants(args.dashboard))
    /\ pc' = "done"
    /\ UNCHANGED <<op, args>>

TenantsNext ==
    \/ CallGetTenantEnvironments
    \/ CallGetTenants

SpecTenants == TenantsInit /\ [][TenantsNext]_vars

-----------------------------------------------------------------------------
(* answer_general_query_wrapper: the function it returns, called with the   *)
(* entities and extra keyword arguments drawn by the initial state          *)

MaxKwargs == 2

\* lines 70-92: the keys of the body in the order of the dict literal, each with
\* the sanitizer that fills it and the parameter the sanitizer is given
BodyEntries ==
    << <<"space_name", "sanitize_space", "space">>,
       <<"project_names", "sanitize_projects", "projects">>,
       <<"runbook_names", "sanitize_runbooks", "runbooks">>,
       <<"target_names", "sanitize_targets", "targets">>,
       <<"tenant_names", "sanitize_tenants", "tenants">>,
       <<"library_variable_sets", "sanitize_library_variable_sets", "library_variable_sets">>,
       <<"environment_names", "sanitize_environments", "environments">>,
       <<"feed_names", "sanitize_feeds", "feeds">>,
       <<"account_names", "sanitize_accounts", "accounts">>,
       <<"certificate_names", "sanitize_certificates", "certificates">>,
       <<"lifecycle_names", "sanitize_lifecycles", "lifecycles">>,
       <<"workerpool_names", "sanitize_workerpools", "worker_pools">>,
       <<"machinepolicy_names", "sanitize_machinepolicies", "machine_policies">>,
       <<"tagset_names", "sanitize_tenanttagsets", "tag_sets">>,
       <<"projectgroup_names", "sanitize_projectgroups", "project_groups">>,
       <<"channel_names", "sanitize_channels", "channels">>,
       <<"release_versions", "sanitize_releases", "releases">>,
       <<"step_names", "sanitize_steps", "steps">>,
       <<"variable_names", "sanitize_steps", "variables">>,
       <<"gitcredential_names", "sanitize_gitcredentials", "git_credentials">>,
       <<"dates", "sanitize_dates", "dates">> >>

BodyKeys == {BodyEntries[i][1] : i \in 1..Len(BodyEntries)}

\* the named parameters of answer_general_query
Parameters == {BodyEntries[i][3] : i \in 1..Len(BodyEntries)}

\* domain.sanitizers.sanitized_list: the value a sanitizer makes of an entity
\* list; sanitize_space and sanitize_environments are given the query as well
Sanitize(sanitizer, query, value) ==
    [by |-> sanitizer,
     query |-> IF sanitizer \in {"sanitize_space", "sanitize_environments"} THEN query ELSE <<>>,
     value |-> value]

\* a value that is put into the body as it was passed
Unchanged(value) == [by |-> "", query |-> <<>>, value |-> value]

\* lines 70-92: the body built from the named parameters
InitialBody(a) ==
    [k \in BodyKeys |->
        LET entry == BodyEntries[CHOOSE i \in 1..Len(BodyEntries) : BodyEntries[i][1] = k]
        IN  Sanitize(entry[2], a.query, a.parameters[entry[3]])]

\* lines 94-98: the extra keyword arguments, merged in the order of kwargs;
\* the outcome holds the body, the log and the exception raised, if any
RECURSIVE MergeKwargs(_, _, _)
MergeKwargs(outcome, kwargs, logging) ==
    IF kwargs = <<>> \/ outcome.raised # "" THEN outcome
    ELSE LET key == kwargs[1][1]
             value == kwargs[1][2]
         IN  MergeKwargs(
                 IF key \notin DOMAIN outcome.body
                 THEN [outcome EXCEPT !.body =
                          [k \in DOMAIN outcome.body \cup {key} |->
                              IF k = key THEN Unchanged(value) ELSE outcome.body[k]]]
                 ELSE IF logging
                 THEN [outcome EXCEPT !.log = Append(@, <<"Conflicting Key: " \o key,
                                                          "Value: {value}">>)]
                 ELSE [outcome EXCEPT !.raised = "TypeError"],
                 Tail(kwargs), logging)

\* domain.messages.general.build_hcl_prompt
build_hcl_prompt == <<"hcl prompt">>

\* the callback: what it returns stands for the call it was given
callback(query, body, messages) == [query |-> query, body |-> body, messages |-> messages]

\* lines 29-102: the outcome of answer_general_query: the exception raised, if
\* any, the value returned, the calls of the callback and the log
answer_general_query(a) ==
    LET entered == IF a.logging THEN << <<"Enter:", "answer_general_query">> >> ELSE <<>>
        merged == MergeKwargs([raised |-> "", body |-> InitialBody(a), log |-> entered],
                              a.kwargs, a.logging)
        messages == build_hcl_prompt
    IN  IF merged.raised # ""
        THEN [raised |-> merged.raised, value |-> <<>>, calls |-> <<>>, log |-> merged.log]
        ELSE [raised |-> "", value |-> <<callback(a.query, merged.body, messages)>>,
              calls |-> << <<a.query, merged.body, messages>> >>, log |-> merged.log]

\* extra keyword arguments: names of body keys and other names
KwargKeys == {"space_name", "project_names", "custom", "channel"}

KwargLists ==
    {kwargs \in SeqsUpTo(KwargKeys \X {Str("first"), Str("second")}, MaxKwargs) :
        \A i, j \in 1..Len(kwargs) : i # j => kwargs[i][1] # kwargs[j][1]}

QueryCalls ==
    [op : {"answer_general_query"},
     query : {Str("What does WebApp deploy?")},
     logging : BOOLEAN,
     parameters : {[p \in Parameters |->
                       IF p = "space" THEN space ELSE IF p = "projects" THEN projects
                       ELSE Nothing] :
                   space \in {Nothing, Some(Str("Main"))},
                   projects \in {Nothing, Some(<<Str("WebApp")>>)}},
     kwargs : KwargLists]

QueryInit ==
    /\ pc = "call"
    /\ args \in QueryCalls
    /\ op = args.op
    /\ result = <<>>

CallAnswerGeneralQuery ==
    /\ pc = "call" /\ op = "answer_general_query"
    /\ result' = answer_general_query(args)
    /\ pc' = "done"
    /\ UNCHANGED <<op, args>>

QueryNext == CallAnswerGeneralQuery

SpecQuery == QueryInit /\ [][QueryNext]_vars

-----------------------------------------------------------------------------
(* send_slack_message and handle_error, called on messages, exceptions and  *)
(* outcomes of the HTTP request drawn by the initial state                   *)

\* json.dumps({"text": message}): TypeError for a message that JSON cannot hold
json_dumps(message) ==
    IF message.serializable THEN Returned(<<"{\"text\": ">> \o message.text \o <<"}">>)
    ELSE Raised("TypeError")

\* infrastructure.http_pool.http.request: a url that is not a string makes the
\* pool raise; otherwise the request ends as the outcome says, in a response or
\* in an exception
http_request(slack_url, data, outcome) ==
    IF slack_url.kind # "str" THEN [raised |-> "TypeError", status |-> 0, data |-> <<>>]
    ELSE outcome

\* the outcome of send_slack_message without its try statement
send_slack_message_Uncaught(message, slack_url, outcome) ==
    LET data == json_dumps(message)
    IN  IF data.raised # ""
        THEN [raised |-> data.raised, value |-> <<>>, log |-> <<>>, requests |-> <<>>]
        ELSE LET resp == http_request(slack_url, data.value, outcome)
                 requests == << <<slack_url, data.value>> >>
             IN  IF resp.raised # ""
                 THEN [raised |-> resp.raised, value |-> <<>>, log |-> <<>>,
                       requests |-> requests]
                 ELSE [raised |-> "", value |-> <<>>,
                       log |-> IF resp.status # 200 THEN <<resp.data>> ELSE <<>>,
                       requests |-> requests]

\* lines 10-25: the outcome of send_slack_message: the exception that leaves
\* it, if any, the errors logged and the requests made
send_slack_message(message, slack_url, outcome) ==
    LET data == json_dumps(message)
        caught(e, requests) ==
            [raised |-> "", value |-> <<>>,
             log |-> <<Str("repr of " \o e), Str("traceback of " \o e)>>,
             requests |-> requests]
    IN  IF data.raised # "" THEN caught(data.raised, <<>>)
        ELSE LET resp == http_request(slack_url, data.value, outcome)
                 requests == << <<slack_url, data.value>> >>
             IN  IF resp.raised # "" THEN caught(resp.raised, requests)
                 ELSE [raised |-> "", value |-> <<>>,
                       log |-> IF resp.status # 200 THEN <<resp.data>> ELSE <<>>,
                       requests |-> requests]

\* domain.config.slack.get_slack_url, passed as the function it is
get_slack_url == [kind |-> "function", value |-> Str("get_slack_url")]

\* error_handling.py, lines 10-18: the outcome of handle_error
handle_error(exception, outcome) ==
    LET error_message == IF exception.message # Nothing THEN exception.message[1]
                         ELSE [serializable |-> TRUE, text |-> exception.repr]
        sent == send_slack_message(error_message, get_slack_url, outcome)
    IN  [sent EXCEPT !.log = <<error_message.text, Str("traceback")>> \o @]

\* the responses and exceptions a request may end in
Outcomes ==
    [raised : {""}, status : {200, 404, 500}, data : {Str("response body")}]
    \cup [raised : {"HTTPError", "TimeoutError", "MaxRetryError"}, status : {0}, data : {<<>>}]

Messages == [serializable : BOOLEAN, text : {Str("Deployment failed"), Str("Timeout"), <<>>}]

SlackUrls == {[kind |-> "str", value |-> Str("https://hooks.slack.example/T1")], get_slack_url}

\* exceptions: with or without the attribute message, which may hold anything
Exceptions ==
    [message : {Nothing} \cup {Some(m) : m \in Messages},
     repr : {Str("KeyError('Environments')"), Str("ValueError()")}]

SlackCalls ==
    [op : {"send_slack_message"}, message : Messages, slack_url : SlackUrls, outcome : Outcomes]
    \cup [op : {"handle_error"}, exception : Exceptions, outcome : Outcomes]

SlackInit ==
    /\ pc = "call"
    /\ args \in SlackCalls
    /\ op = args.op
    /\ result = <<>>

CallSendSlackMessage ==
    /\ pc = "call" /\ op = "send_slack_message"
    /\ result' = send_slack_message(args.message, args.slack_url, args.outcome)
    /\ pc' = "done"
    /\ UNCHANGED <<op, args>>

CallHandleError ==
    /\ pc = "call" /\ op = "handle_error"
    /\ result' = handle_error(args.exception, args.outcome)
    /\ pc' = "done"
    /\ UNCHANGED <<op, args>>

SlackNext ==
    \/ CallSendSlackMessage
    \/ CallHandleError

SpecSlack == SlackInit /\ [][SlackNext]_vars

-----------------------------------------------------------------------------
(* Properties of the helper functions (SpecHelpers) *)

\* The icon table of get_state_icon as the specification states it
StateIconTable(state, has_warnings) ==
    CASE state = Str("Executing") -> Str(BlueCircle)
      [] state = Str("Success") /\ has_warnings -> Str(YellowCircle)
      [] state = Str("Success") /\ ~has_warnings -> Str(GreenCircle)
      [] state = Str("Failed") -> Str(RedCircle)
      [] state = Str("Canceled") -> Str(WhiteCircle)
      [] state = Str("TimedOut") -> Str(RedCircle)
      [] state = Str("Cancelling") -> Str(RedCircle)
      [] state = Str("Queued") -> Str(PurpleCircle)
      [] OTHER -> Str(WhiteCircle)

\* C5: get_state_icon returns the icon of the table for every state and
\* warnings flag (an unmapped state, the empty string and None included, gives
\* the white circle and no error), and the warnings flag changes the result
\* only for the state Success.
C5_StateIcon ==
    Done("get_state_icon") =>
        /\ result = StateIconTable(args.state, args.has_warnings)
        /\ (args.state # Str("Success") =>
                result = StateIconTable(args.state, ~args.has_warnings))
        /\ (args.state = Str("Success") =>
                result # StateIconTable(args.state, ~args.has_warnings))

C5_Witness ==
    /\ Done("get_state_icon")
    /\ args.state = Str("Success") /\ args.has_warnings
    /\ result = Str(YellowCircle)

\* The icon of a conclusion, used when the status is neither in_progress nor queued
ConclusionIconTable(conclusion) ==
    CASE conclusion = Str("success") -> Str(GreenCircle)
      [] conclusion \in {Str("failure"), Str("timed_out")} -> Str(RedCircle)
      [] conclusion = Str("action_required") -> Str(OrangeCircle)
      [] OTHER -> Str(WhiteCircle)

\* C6: get_github_state_icon returns the blue circle for status in_progress and
\* the purple circle for status queued whatever the conclusion is, and for every
\* other status (None and unknown ones included) the icon of the conclusion
\* alone; every input gives an icon.
C6_GithubStateIcon ==
    Done("get_github_state_icon") =>
        /\ (args.status = Str("in_progress") => result = Str(BlueCircle))
        /\ (args.status = Str("queued") => result = Str(PurpleCircle))
        /\ (args.status \notin {Str("in_progress"), Str("queued")} =>
                result = ConclusionIconTable(args.conclusion))

C6_Witness ==
    /\ Done("get_github_state_icon")
    /\ args.status = Str("queued") /\ args.conclusion = Str("failure")
    /\ result = Str(PurpleCircle)

\* C7: build_markdown_table_header_separator(n) is the empty string for n = 0
\* and for n > 0 a line of n+1 pipes with one dash between neighbours, ended by
\* a line feed; build_markdown_table_row emits, for n > 0 cells without a pipe,
\* as many pipes as the separator for n has.
C7_HeaderSeparator ==
    /\ Done("build_markdown_table_header_separator") =>
          IF args.count = 0 THEN result = <<>>
          ELSE /\ Len(result) = 2 * args.count + 2
               /\ result[Len(result)] = LF
               /\ \A i \in 1..(2 * args.count + 1) :
                      result[i] = (IF i % 2 = 1 THEN "|" ELSE "-")
               /\ Count(result, "|") = args.count + 1
    /\ Done("build_markdown_table_row") /\ args.columns # <<>> =>
          /\ result.raised = ""
          /\ Count(result.value, "|") = Len(args.columns) + 1
          /\ Count(result.value, "|") =
                Count(build_markdown_table_header_separator(Len(args.columns)), "|")

C7_Witness ==
    /\ Done("build_markdown_table_header_separator")
    /\ args.count = 2
    /\ result = <<"|", "-", "|", "-", "|", LF>>

-----------------------------------------------------------------------------
(* Reading a rendered table *)

\* the pieces of a text between the occurrences of the token tok
SplitOn(text, tok) ==
    LET at == {i \in 1..Len(text) : text[i] = tok}
        \* the position of the k-th occurrence; 0 and Len(text) + 1 close the ends
        pos(k) == IF k = 0 THEN 0
                  ELSE IF k > Cardinality(at) THEN Len(text) + 1
                  ELSE CHOOSE p \in at : Cardinality({q \in at : q < p}) = k - 1
        pieces == [k \in 1..(Cardinality(at) + 1) |-> SubSeq(text, pos(k - 1) + 1, pos(k) - 1)]
    IN  pieces \o <<>>

Lines(text) == SplitOn(text, LF)

\* the cells of a table line: what stands after each pipe but the last
CellsOf(line) == LET parts == SplitOn(line, "|") IN SubSeq(parts, 2, Len(parts) - 1)

PlaceholderCell == <<" ", Placeholder, " ">>

-----------------------------------------------------------------------------
(* Properties of the space dashboard (SpecSpace) *)

Rendered(f) == Done(f) /\ result.raised = ""

\* the projects of a group, in the order of Projects
ProjectsOf(dashboard, project_group) ==
    SelectSeq(dashboard.Projects, LAMBDA p : p.ProjectGroupId = project_group.Id)

\* the line of the output at which the table of the i-th project group starts:
\* after the title and a blank line, each table is a header, a separator, one
\* row per project and a blank line
RECURSIVE GroupStart(_, _)
GroupStart(dashboard, i) ==
    IF i = 1 THEN 3
    ELSE GroupStart(dashboard, i - 1) + 2
         + Len(ProjectsOf(dashboard, dashboard.ProjectGroups[i - 1])) + 1

HasDeployment(dashboard, project, environment_id) ==
    \E k \in 1..Len(dashboard.Items) :
        /\ dashboard.Items[k].ProjectId = project.Id
        /\ dashboard.Items[k].EnvironmentId = environment_id

\* whether the render has a GitHub column
GithubColumn(a) == a.github_actions_status \notin {Nothing, Some(<<>>)}

\* C1: in the space dashboard every body row of a project group has as many
\* cells as the group's header row, which has one cell for the group name, one
\* for GitHub when github_actions_status is supplied and one per id of
\* EnvironmentIds; the separator is the one built for that number of columns;
\* and the cell of an environment without a deployment of the project is the
\* placeholder cell.
C1_SpaceRowCells ==
    Rendered("get_dashboard_response") =>
        LET d == args.dashboard
            lines == Lines(result.value)
        IN  \A i \in 1..Len(d.ProjectGroups) :
              LET g == d.ProjectGroups[i]
                  start == GroupStart(d, i)
                  ncols == 1 + (IF GithubColumn(args) THEN 1 ELSE 0) + Len(g.EnvironmentIds)
                  projects == ProjectsOf(d, g)
              IN  /\ Len(CellsOf(lines[start])) = ncols
                  /\ lines[start + 1] \o <<LF>> =
                        build_markdown_table_header_separator(Len(CellsOf(lines[start])))
                  /\ \A j \in 1..Len(projects) :
                        LET row == CellsOf(lines[start + 1 + j])
                        IN  /\ Len(row) = Len(CellsOf(lines[start]))
                            /\ \A k \in 1..Len(g.EnvironmentIds) :
                                  ~HasDeployment(d, projects[j], g.EnvironmentIds[k])
                                  => row[ncols - Len(g.EnvironmentIds) + k] = PlaceholderCell
                  /\ lines[start + 2 + Len(projects)] = <<>>

C1_Witness ==
    /\ Rendered("get_dashboard_response")
    /\ DOMAIN args.dashboard = DashboardKeys
    /\ GithubColumn(args)
    /\ Len(args.dashboard.ProjectGroups) = 2
    /\ Len(args.dashboard.ProjectGroups[2].EnvironmentIds) = 2
    /\ args.dashboard.Projects = <<WebApp, Api>>
    /\ Len(args.dashboard.Items) = 1
    /\ Len(CellsOf(Lines(result.value)[6])) = 4
    /\ Len(CellsOf(Lines(result.value)[9])) = 4

\* the rows of the render: <<i, j>> for the j-th project of the i-th group
RowsOf(dashboard) ==
    UNION {{<<i, j>> : j \in 1..Len(ProjectsOf(dashboard, dashboard.ProjectGroups[i]))} :
           i \in 1..Len(dashboard.ProjectGroups)}

\* the number of (project, environment) cells of the render without a deployment
NoDataCells(a) ==
    LET d == a.dashboard
        ids(r) == d.ProjectGroups[r[1]].EnvironmentIds
        project(r) == ProjectsOf(d, d.ProjectGroups[r[1]])[r[2]]
    IN  Cardinality(UNION {{<<r, k>> : k \in {k \in 1..Len(ids(r)) :
                                                ~HasDeployment(d, project(r), ids(r)[k])}} :
                           r \in RowsOf(d)})

\* whether a repo link, a workflow status, a PR count or an issue count line
\* applies to a project
HasGithubLine(a, project) ==
    LET Entry(list, ok(_)) ==
            list # Nothing /\ \E i \in 1..Len(list[1]) :
                                 list[1][i].ProjectId = project.Id /\ ok(list[1][i])
        repo == Entry(a.github_actions, LAMBDA x : Truthy(x.Repo) /\ Truthy(x.Owner))
    IN  \/ repo
        \/ Entry(a.github_actions_status, LAMBDA x : Truthy(x.Status))
        \/ repo /\ Entry(a.pull_requests, LAMBDA x : TRUE)
        \/ repo /\ Entry(a.issues, LAMBDA x : TRUE)

\* the number of rendered project rows whose GitHub cell has no line to show
EmptyGithubCells(a) ==
    LET d == a.dashboard
    IN  IF ~GithubColumn(a) THEN 0
        ELSE Cardinality({r \in RowsOf(d) :
                ~HasGithubLine(a, ProjectsOf(d, d.ProjectGroups[r[1]])[r[2]])})

\* the environment cell of a pair is the placeholder cell exactly when Items
\* holds no deployment of the project to the environment
PlaceholderIffNoDeployment ==
    LET d == args.dashboard
        lines == Lines(result.value)
    IN  \A i \in 1..Len(d.ProjectGroups) :
          LET g == d.ProjectGroups[i]
              projects == ProjectsOf(d, g)
              offset == 1 + (IF GithubColumn(args) THEN 1 ELSE 0)
          IN  \A j \in 1..Len(projects) : \A k \in 1..Len(g.EnvironmentIds) :
                LET cell == CellsOf(lines[GroupStart(d, i) + 1 + j])[offset + k]
                IN  IF HasDeployment(d, projects[j], g.EnvironmentIds[k])
                    THEN Count(cell, Placeholder) = 0
                    ELSE cell = PlaceholderCell

\* C4 as stated: the placeholder glyph stands for a (project, environment) pair
\* exactly when Items holds no deployment of the pair, and nowhere else in the
\* output.
C4_PlaceholderOnlyForPairs ==
    Rendered("get_dashboard_response") =>
        /\ PlaceholderIffNoDeployment
        /\ Count(result.value, Placeholder) = NoDataCells(args)

\* C4, amended: the environment cell of a (project, environment) pair is the
\* placeholder exactly when Items holds no deployment of the pair; the only
\* other placeholders of the output are the GitHub cells of the projects to
\* which, with github_actions_status supplied, no GitHub line applies.
C4_Placeholder ==
    Rendered("get_dashboard_response") =>
        /\ PlaceholderIffNoDeployment
        /\ Count(result.value, Placeholder) = NoDataCells(args) + EmptyGithubCells(args)

C4_Witness ==
    /\ Rendered("get_dashboard_response")
    /\ DOMAIN args.dashboard = DashboardKeys
    /\ args.dashboard.Projects = <<WebApp, Api>>
    /\ args.dashboard.ProjectGroups = <<DefaultGroup(<<Str("E1"), Str("E2")>>)>>
    /\ Len(args.dashboard.Items) = 2
    /\ args.dashboard.Items[2].ProjectId = Str("P2")
    /\ args.dashboard.Items[1].ProjectId = Str("P1")
    /\ args.github_actions_status = Some(<<WebAppStatus>>)
    /\ NoDataCells(args) = 2
    /\ EmptyGithubCells(args) = 1
    /\ Count(result.value, Placeholder) = 3

\* the inputs of the scenario: one group Default with [E1], the environment E1
\* named Dev, the project WebApp, no Items, no enrichment
IsScenario ==
    /\ args.dashboard = [Environments |-> <<Environment(Str("E1"))>>,
                         ProjectGroups |-> <<DefaultGroup(<<Str("E1")>>)>>,
                         Projects |-> <<WebApp>>, Items |-> <<>>]
    /\ args.github_actions = Nothing /\ args.github_actions_status = Nothing
    /\ args.pull_requests = Nothing /\ args.issues = Nothing

\* C8 as stated: the scenario renders the header | Default | Dev |, the
\* separator |--|--| and the body row | WebApp | (x)|.
C8_ScenarioAsStated ==
    Rendered("get_dashboard_response") /\ IsScenario =>
        LET lines == Lines(result.value)
        IN  /\ lines[3] = <<"|", " ", "Default", " ", "|", " ", "Dev", " ", "|">>
            /\ lines[4] = <<"|", "-", "-", "|", "-", "-", "|">>
            /\ lines[5] = <<"|", " ", "WebApp", " ", "|", " ", Placeholder, "|">>

\* C8, amended: the scenario renders the header | Default | Dev |, the
\* separator |-|-| (one pipe more than the two columns, single dashes between
\* them) and the body row | WebApp | (x) | (a space after the placeholder).
C8_Scenario ==
    Rendered("get_dashboard_response") /\ IsScenario =>
        Lines(result.value) =
            << <<"#", " ", "Main">>,
               <<>>,
               <<"|", " ", "Default", " ", "|", " ", "Dev", " ", "|">>,
               <<"|", "-", "|", "-", "|">>,
               <<"|", " ", "WebApp", " ", "|", " ", Placeholder, " ", "|">>,
               <<>>,
               <<>> >>

C8_Witness ==
    /\ Rendered("get_dashboard_response") /\ IsScenario
    /\ Lines(result.value)[5] = <<"|", " ", "WebApp", " ", "|", " ", Placeholder, " ", "|">>

-----------------------------------------------------------------------------
(* Properties of the runbook dashboard (SpecRunbook) *)

\* C2: in the runbook dashboard every body row has as many cells as the header
\* row, which has one blank cell and one cell per environment id of RunbookRuns.
C2_RunbookRowCells ==
    Rendered("get_runbook_dashboard_response") =>
        LET lines == Lines(result.value)
            header == CellsOf(lines[3])
        IN  /\ Len(header) = 1 + Len(args.dashboard.RunbookRuns)
            /\ \A n \in 5..(Len(lines) - 1) : Len(CellsOf(lines[n])) = Len(header)

\* the runs of the snapshot: <<e, p>> for the p-th run of the e-th environment
RunSlots(runbook_runs) ==
    UNION {{<<e, p>> : p \in 1..Len(runbook_runs[e].Runs)} : e \in 1..Len(runbook_runs)}

\* whether a run is met before another when the environments are scanned in
\* iteration order and the runs in list order
ScannedBefore(s, t) == s[1] < t[1] \/ (s[1] = t[1] /\ s[2] < t[2])

\* the tenant label of a run: its TenantId, or Untenanted when that is null or empty
TenantLabel(runbook_runs, s) ==
    LET id == runbook_runs[s[1]].Runs[s[2]].TenantId
    IN  IF id \in {None, <<>>} THEN Str("Untenanted") ELSE id

\* the first run of the scan that has the label of a run
FirstSeen(runbook_runs, s) ==
    CHOOSE t \in RunSlots(runbook_runs) :
        /\ TenantLabel(runbook_runs, t) = TenantLabel(runbook_runs, s)
        /\ \A u \in RunSlots(runbook_runs) :
              TenantLabel(runbook_runs, u) = TenantLabel(runbook_runs, s) => ~ScannedBefore(u, t)

\* the order of the rows: by tenant in first-seen order, then by environment,
\* then by position
RowBefore(runbook_runs, s, t) ==
    LET fs == FirstSeen(runbook_runs, s)
        ft == FirstSeen(runbook_runs, t)
    IN  ScannedBefore(fs, ft) \/ (fs = ft /\ ScannedBefore(s, t))

\* the body rows of the runbook dashboard: the lines after the separator
RunbookBody == LET lines == Lines(result.value) IN SubSeq(lines, 5, Len(lines) - 1)

\* C14: the runbook dashboard has one body row per run of RunbookRuns, runs of
\* one tenant and environment included each, and the k-th row is the row of the
\* k-th run in the order by tenant (first seen first), then environment
\* (iteration order), then position in the list.
C14_OneRowPerRun ==
    Rendered("get_runbook_dashboard_response") =>
        LET runbook_runs == args.dashboard.RunbookRuns
            slots == RunSlots(runbook_runs)
            body == RunbookBody
            slot(k) == CHOOSE s \in slots :
                           Cardinality({t \in slots : RowBefore(runbook_runs, t, s)}) = k - 1
        IN  /\ Len(body) = Cardinality(slots)
            /\ \A k \in 1..Len(body) :
                  body[k] \o <<LF>> =
                      build_markdown_table_row(
                          build_runbook_run_columns(runbook_runs[slot(k)[1]].Runs[slot(k)[2]],
                                                    args.now, args.get_tenant)).value

\* two runs of Tenants-1 in E1 give two equal rows, before the row of E2's run
\* of Tenants-1 and before the untenanted run that stands first in E2's list
C14_Witness ==
    /\ Rendered("get_runbook_dashboard_response")
    /\ args.dashboard.RunbookRuns =
          << [Id |-> Str("E1"),
              Runs |-> <<RunbookRun(Str("Tenants-1"), "Executing"),
                         RunbookRun(Str("Tenants-1"), "Executing")>>],
             [Id |-> Str("E2"),
              Runs |-> <<RunbookRun(None, "Success"),
                         RunbookRun(Str("Tenants-1"), "Executing")>>] >>
    /\ Len(RunbookBody) = 4
    /\ RunbookBody[1] = RunbookBody[2]
    /\ RunbookBody[3] = RunbookBody[1]
    /\ RunbookBody[4][3] = "Untenanted"

-----------------------------------------------------------------------------
(* Properties of the project dashboard and the tenant progression (SpecProject) *)

\* the data section of the project dashboard: the last line of the output
DataCells == LET lines == Lines(result.value) IN CellsOf(lines[Len(lines)])

\* whether some release has a deployment to the environment
SomeReleaseDeploysTo(dashboard, environment) ==
    \E i \in 1..Len(dashboard.Releases) :
        /\ environment.Id \in DOMAIN dashboard.Releases[i].Deployments
        /\ dashboard.Releases[i].Deployments[environment.Id] # <<>>

\* C3: in the project dashboard the data section holds one cell per environment
\* column, and the cell of an environment is the placeholder exactly when no
\* release has a deployment to that environment.
C3_ProjectPlaceholder ==
    Rendered("get_project_dashboard_response") =>
        LET environments == args.dashboard.Environments
        IN  /\ Len(DataCells) = Len(environments)
            /\ \A k \in 1..Len(environments) :
                  DataCells[k] = PlaceholderCell
                  <=> ~SomeReleaseDeploysTo(args.dashboard, environments[k])

\* the messages of a cell content: its pieces between the <br/> markers
MessagesOf(content) == SplitOn(content, BR)

\* the DeploymentId that the link of a deployment cell ends with
ShownDeploymentId(messages) ==
    LET link == messages[1]
        at == CHOOSE i \in 1..Len(link) : link[i] = "/deployments/"
    IN  <<link[at + 1]>>

\* the workflow-run lines a cell may carry for a release: the line of the first
\* entry, in input order, that has the release's id, a ShortSha and a Url
FirstRunLine(release_workflow_runs, release_id) ==
    LET runs == OrEmpty(release_workflow_runs)
        candidates == {i \in 1..Len(runs) :
                          /\ runs[i].ReleaseId = release_id
                          /\ Get(runs[i], "ShortSha") \notin {None, <<>>}
                          /\ Get(runs[i], "Url") \notin {None, <<>>}}
    IN  IF candidates = {} THEN <<>>
        ELSE <<WorkflowRunLine(runs[CHOOSE i \in candidates : \A j \in candidates : i <= j])>>

\* the number of highlights of a deployment
HighlightCount(deployment_highlights, deployment_id) ==
    LET all == OrEmpty(deployment_highlights)
    IN  Cardinality({i \in 1..Len(all) : all[i].DeploymentId = deployment_id})

\* the lines of a cell between its first `fixed` lines and its highlights
RunLinesOf(messages, fixed, deployment_id) ==
    SubSeq(messages, fixed + 1,
           Len(messages) - HighlightCount(args.deployment_highlights, deployment_id))

\* the release of the project dashboard that holds a deployment
ReleaseIdOf(dashboard, deployment_id) ==
    LET holds(r) == \E e \in DOMAIN r.Deployments : \E i \in 1..Len(r.Deployments[e]) :
                        r.Deployments[e][i].DeploymentId = deployment_id
    IN  (CHOOSE r \in Range(dashboard.Releases) : holds(r)).Release.Id

\* the lines at which the tenant sections of the tenant progression start
SectionStarts(lines) == {n \in 1..Len(lines) : lines[n] # <<>> /\ lines[n][1] = "##"}

\* the line at which the section of the t-th tenant starts
SectionStart(lines, t) ==
    CHOOSE n \in SectionStarts(lines) : Cardinality({m \in SectionStarts(lines) : m < n}) = t - 1

\* the cells of the body row of the t-th tenant: none when it has no environment
TenantCells(lines, t) ==
    LET start == SectionStart(lines, t)
    IN  IF lines[start + 1] = <<>> THEN <<>> ELSE CellsOf(lines[start + 3])

\* the content of a cell of a row built by build_markdown_table_row
ContentOf(cell) == SubSeq(cell, 2, Len(cell) - 1)

\* C9: in the project dashboard and in the tenant progression, the lines of a
\* deployment cell between the fixed ones and the highlights are at most one
\* workflow-run line: the line of the first entry of release_workflow_runs, in
\* input order, that has the release's id, a non-empty ShortSha and a non-empty
\* Url; later candidates and entries without ShortSha or Url are not shown.
C9_FirstWorkflowRun ==
    /\ Rendered("get_project_dashboard_response") =>
          \A k \in 1..Len(DataCells) :
              DataCells[k] # PlaceholderCell =>
                  LET messages == MessagesOf(Tail(DataCells[k]))
                      id == ShownDeploymentId(messages)
                      lines == RunLinesOf(messages, 2, id)
                  IN  /\ Len(lines) <= 1
                      /\ lines = FirstRunLine(args.release_workflow_runs,
                                              ReleaseIdOf(args.dashboard, id))
    /\ Rendered("get_project_tenant_progression_response") =>
          LET lines == Lines(result.value)
          IN  \A t \in 1..Len(args.dashboard.Tenants) :
                LET cells == TenantCells(lines, t)
                IN  \A k \in 1..Len(cells) :
                      cells[k] # PlaceholderCell =>
                          LET messages == MessagesOf(ContentOf(cells[k]))
                              id == ShownDeploymentId(messages)
                              d == CHOOSE d \in Range(args.dashboard.Items) :
                                       d.DeploymentId = id
                              runs == RunLinesOf(messages, 3, id)
                          IN  /\ Len(runs) <= 1
                              /\ runs = FirstRunLine(args.release_workflow_runs, d.ReleaseId)

\* a cell of the project dashboard that shows the first complete run of release 1
\* although an entry without a Url stands before it and another complete one after
C9_Witness ==
    /\ Rendered("get_project_dashboard_response")
    /\ args.release_workflow_runs # Nothing
    /\ Len(args.release_workflow_runs[1]) = 2
    /\ "Url" \notin DOMAIN args.release_workflow_runs[1][1]
    /\ args.release_workflow_runs[1][1].ReleaseId = Str("Releases-1")
    /\ Get(args.release_workflow_runs[1][2], "Url") = Str("https://ci/1")
    /\ Len(DataCells) >= 1
    /\ DataCells[1] # PlaceholderCell
    /\ LET messages == MessagesOf(Tail(DataCells[1]))
       IN  /\ ReleaseIdOf(args.dashboard, ShownDeploymentId(messages)) = Str("Releases-1")
           /\ RunLinesOf(messages, 2, ShownDeploymentId(messages))
                 = <<WorkflowRunLine(args.release_workflow_runs[1][2])>>

\* C10: in the tenant progression a deployment shown in the section of a tenant
\* has the tenant id of that tenant: one without a TenantId (absent or None) is
\* shown only under a tenant without an Id (absent or None), never under a tenant
\* whose Id is the empty string, and one with a tenant id only under the tenant
\* with the same id.
C10_TenantEquality ==
    Rendered("get_project_tenant_progression_response") =>
        LET lines == Lines(result.value)
        IN  \A t \in 1..Len(args.dashboard.Tenants) :
              LET tenant == args.dashboard.Tenants[t]
                  cells == TenantCells(lines, t)
              IN  \A k \in 1..Len(cells) :
                    cells[k] # PlaceholderCell =>
                        LET id == ShownDeploymentId(MessagesOf(ContentOf(cells[k])))
                            d == CHOOSE d \in Range(args.dashboard.Items) : d.DeploymentId = id
                            absent(x, key) == key \notin DOMAIN x \/ x[key] = None
                        IN  /\ absent(d, "TenantId") => absent(tenant, "Id")
                            /\ ~absent(d, "TenantId") =>
                                  ~absent(tenant, "Id") /\ tenant.Id = d.TenantId

\* the untenanted deployment is shown under the tenant without an Id and not
\* under the tenant with the empty Id that stands before it
C10_Witness ==
    /\ Rendered("get_project_tenant_progression_response")
    /\ "Tenants" \in DOMAIN args.dashboard
    /\ args.dashboard.Tenants = <<Blank, UntenantedNone>>
    /\ args.dashboard.Items = <<ReleaseDeployment(Str("Releases-1"), Str("E1"), None)>>
    /\ args.dashboard.Environments[1].Id = Str("E1")
    /\ LET lines == Lines(result.value)
       IN  /\ TenantCells(lines, 1)[1] = PlaceholderCell
           /\ TenantCells(lines, 2)[1] # PlaceholderCell
           /\ ShownDeploymentId(MessagesOf(ContentOf(TenantCells(lines, 2)[1])))
                 = ReleaseDeployment(Str("Releases-1"), Str("E1"), None).DeploymentId

-----------------------------------------------------------------------------
(* The enrichment of the space dashboard (SpecSpace) *)

\* whether a text holds a piece
Contains(text, piece) ==
    \E i \in 1..(Len(text) - Len(piece) + 1) : SubSeq(text, i, i + Len(piece) - 1) = piece

\* the repository supplied for a project in github_actions, if any
RepoOf(a, project) ==
    IF a.github_actions = Nothing THEN Nothing
    ELSE First(a.github_actions[1],
               {x \in Range(a.github_actions[1]) :
                   x.ProjectId = project.Id /\ Truthy(x.Repo) /\ Truthy(x.Owner)})

\* the repo link, PR count and issue count lines the supplied inputs give a project
SuppliedLines(a, project) ==
    build_repo_link(RepoOf(a, project))
    \o build_pr_response_for_project(a.pull_requests, project.Id, RepoOf(a, project))
    \o build_issue_response_for_project(a.issues, project.Id, RepoOf(a, project))

\* the environment cells of the row of the j-th project of the i-th group
EnvironmentCellsOf(text, dashboard, i, j) ==
    LET row == CellsOf(Lines(text)[GroupStart(dashboard, i) + 1 + j])
        n == Len(dashboard.ProjectGroups[i].EnvironmentIds)
    IN  SubSeq(row, Len(row) - n + 1, Len(row))

\* the call without any enrichment
WithoutEnrichment(a) ==
    [a EXCEPT !.github_actions = Nothing, !.github_actions_status = Nothing,
              !.pull_requests = Nothing, !.issues = Nothing]

\* the environment cells are those of the render without enrichment
BaseTableUnchanged ==
    LET d == args.dashboard
        bare == get_dashboard_response(WithoutEnrichment(args))
    IN  /\ bare.raised = ""
        /\ \A r \in RowsOf(d) :
              EnvironmentCellsOf(result.value, d, r[1], r[2])
                 = EnvironmentCellsOf(bare.value, d, r[1], r[2])

\* C12: in the space dashboard, with github_actions_status absent the row of a
\* project still shows the repo link, the PR count line and the issue count
\* line that the supplied inputs give it, and in every case the environment
\* cells are those of the render without enrichment.
C12_EnrichmentFrame ==
    Rendered("get_dashboard_response") /\ DOMAIN args.dashboard = DashboardKeys =>
        LET d == args.dashboard
            lines == Lines(result.value)
        IN  /\ args.github_actions_status = Nothing =>
                  \A r \in RowsOf(d) :
                      LET project == ProjectsOf(d, d.ProjectGroups[r[1]])[r[2]]
                          supplied == SuppliedLines(args, project)
                      IN  \A m \in 1..Len(supplied) :
                              Contains(lines[GroupStart(d, r[1]) + 1 + r[2]], supplied[m])
            /\ BaseTableUnchanged

\* the part of C12 that the code keeps: the environment cells do not depend on
\* the enrichment
C12_BaseTable ==
    Rendered("get_dashboard_response") /\ DOMAIN args.dashboard = DashboardKeys =>
        BaseTableUnchanged

-----------------------------------------------------------------------------
(* The order of the space dashboard (SpecSpace) *)

\* the name that the Environments list gives an environment id
NameOf(dashboard, environment_id) ==
    (CHOOSE e \in Range(dashboard.Environments) : e.Id = environment_id).Name

\* the first deployment of Items for a project and an environment
FirstDeployment(dashboard, project, environment_id) ==
    LET at == {k \in 1..Len(dashboard.Items) :
                  /\ dashboard.Items[k].ProjectId = project.Id
                  /\ dashboard.Items[k].EnvironmentId = environment_id}
    IN  dashboard.Items[CHOOSE k \in at : \A m \in at : k <= m]

\* C15: the space dashboard keeps the order of its input: the i-th table is
\* that of the i-th project group, its j-th row that of the j-th project of
\* Projects in the group, and the k-th environment column and the k-th
\* environment cell of a row are those of the k-th id of the group's
\* EnvironmentIds, whatever the order of the Environments list is.
C15_InputOrder ==
    Rendered("get_dashboard_response") /\ DOMAIN args.dashboard = DashboardKeys =>
        LET d == args.dashboard
            lines == Lines(result.value)
            offset == 1 + (IF GithubColumn(args) THEN 1 ELSE 0)
        IN  \A i \in 1..Len(d.ProjectGroups) :
              LET g == d.ProjectGroups[i]
                  header == CellsOf(lines[GroupStart(d, i)])
                  projects == ProjectsOf(d, g)
              IN  /\ header[1] = <<" ">> \o g.Name \o <<" ">>
                  /\ \A k \in 1..Len(g.EnvironmentIds) :
                        header[offset + k]
                           = <<" ">> \o NameOf(d, g.EnvironmentIds[k]) \o <<" ">>
                  /\ \A j \in 1..Len(projects) :
                        LET row == CellsOf(lines[GroupStart(d, i) + 1 + j])
                        IN  /\ row[1] = <<" ">> \o projects[j].Name \o <<" ">>
                            /\ \A k \in 1..Len(g.EnvironmentIds) :
                                  IF HasDeployment(d, projects[j], g.EnvironmentIds[k])
                                  THEN /\ row[offset + k] # PlaceholderCell
                                       /\ ShownDeploymentId(MessagesOf(Tail(row[offset + k])))
                                             = FirstDeployment(d, projects[j],
                                                               g.EnvironmentIds[k]).DeploymentId
                                  ELSE row[offset + k] = PlaceholderCell

\* Environments lists E2 before E1, the group E1 before E2, and Projects Api
\* before WebApp: the columns are Dev, Test and the rows Api, WebApp, with
\* WebApp's deployment under Dev and Api's under Test
C15_Witness ==
    /\ Rendered("get_dashboard_response")
    /\ DOMAIN args.dashboard = DashboardKeys
    /\ args.github_actions_status = Nothing
    /\ args.dashboard.Environments = <<Environment(Str("E2")), Environment(Str("E1"))>>
    /\ args.dashboard.ProjectGroups = <<OtherGroup, DefaultGroup(<<Str("E1"), Str("E2")>>)>>
    /\ args.dashboard.Projects = <<Api, WebApp>>
    /\ args.dashboard.Items = << Deployment("D3", "P2", "E2", "2.0.0", "Executing", FALSE),
                                 Deployment("D1", "P1", "E1", "1.0.0", "Success", FALSE) >>
    /\ LET lines == Lines(result.value)
       IN  /\ CellsOf(lines[3]) = << <<" ", "Other", " ">>, <<" ", "Dev", " ">> >>
           /\ CellsOf(lines[6]) = << <<" ", "Default", " ">>, <<" ", "Dev", " ">>,
                                     <<" ", "Test", " ">> >>
           /\ CellsOf(lines[8])[1] = <<" ", "Api", " ">>
           /\ CellsOf(lines[8])[2] = PlaceholderCell
           /\ ShownDeploymentId(MessagesOf(Tail(CellsOf(lines[8])[3]))) = Str("D3")
           /\ CellsOf(lines[9])[1] = <<" ", "WebApp", " ">>
           /\ ShownDeploymentId(MessagesOf(Tail(CellsOf(lines[9])[2]))) = Str("D1")
           /\ CellsOf(lines[9])[3] = PlaceholderCell

-----------------------------------------------------------------------------
(* Snapshots that lack a required key *)

\* the keys of the snapshot that a render function requires
RequiredKeys(f) ==
    CASE f = "get_dashboard_response" -> DashboardKeys
      [] f = "get_project_dashboard_response" -> {"Environments", "Releases"}
      [] f = "get_project_tenant_progression_response" -> {"Tenants", "Environments", "Items"}
      [] f = "get_runbook_dashboard_response" -> {"RunbookRuns", "Environments"}

\* C13: a render function called on a snapshot that lacks one of its required
\* keys ends in an error and returns no string, whatever the other collections
\* hold.
C13_MissingKeyRaises ==
    pc = "done" /\ ~(RequiredKeys(op) \subseteq DOMAIN args.dashboard) =>
        result.raised # "" /\ result.value = <<>>

-----------------------------------------------------------------------------
(* Properties of get_tenant_environments and get_tenants (SpecTenants) *)

\* the ids of the dashboard's environments, in the order of Environments
DashboardEnvironmentIds(dashboard) ==
    [i \in 1..Len(dashboard.Environments) |-> dashboard.Environments[i].Id]

\* whether a tenant has an id: the key Id with a value that is not null or empty
HasId(tenant) == "Id" \in DOMAIN tenant /\ tenant.Id \notin {None, <<>>}

\* the environments a tenant lists for a project: none without an entry
AllowList(tenant, project_id) ==
    IF "ProjectEnvironments" \in DOMAIN tenant
       /\ project_id \in DOMAIN tenant.ProjectEnvironments
    THEN {tenant.ProjectEnvironments[project_id][i] :
             i \in 1..Len(tenant.ProjectEnvironments[project_id])}
    ELSE {}

C18_Tenants ==
    Done("get_tenants") =>
        LET runbook_runs == args.dashboard.RunbookRuns
            slots == RunSlots(runbook_runs)
            tenants == result.value
            first(l) == CHOOSE s \in slots :
                            /\ TenantLabel(runbook_runs, s) = l
                            /\ FirstSeen(runbook_runs, s) = s
        IN  /\ result.raised = ""
            /\ {tenants[i] : i \in 1..Len(tenants)}
                  = {TenantLabel(runbook_runs, s) : s \in slots}
            /\ \A i, j \in 1..Len(tenants) :
                  i < j => /\ tenants[i] # tenants[j]
                           /\ ScannedBefore(first(tenants[i]), first(tenants[j]))

\* a null and an empty TenantId give one Untenanted, placed where the first of
\* them is met, and Tenants-1 of the two environments is listed once
C18_Witness ==
    /\ Done("get_tenants")
    /\ args.dashboard.RunbookRuns =
          << [Id |-> Str("E2"),
              Runs |-> <<RunbookRun(Str("Tenants-1"), "Executing"),
                         RunbookRun(<<>>, "Failed")>>],
             [Id |-> Str("E1"),
              Runs |-> <<RunbookRun(None, "Success"),
                         RunbookRun(Str("Tenants-1"), "Executing")>>] >>
    /\ result.value = <<Str("Tenants-1"), Str("Untenanted")>>

-----------------------------------------------------------------------------
(* The sections of the tenant progression (SpecProject) *)

\* whether a deployment and a tenant have the same tenant identity: the
\* TenantId of the one equals the Id of the other, an absent key counting as null
SameTenant(deployment, tenant) ==
    (IF "TenantId" \in DOMAIN deployment THEN deployment.TenantId ELSE None)
       = (IF "Id" \in DOMAIN tenant THEN tenant.Id ELSE None)

\* the environments derived for a tenant: all of the dashboard's for a tenant
\* without an id, those the tenant lists for the project otherwise
DerivedEnvironments(dashboard, tenant, project_id) ==
    IF HasId(tenant)
    THEN SelectSeq(dashboard.Environments,
                   LAMBDA e : e.Id \in AllowList(tenant, project_id))
    ELSE dashboard.Environments

\* the items of Items that match a tenant and an environment
MatchingItems(dashboard, tenant, environment) ==
    {i \in 1..Len(dashboard.Items) :
        /\ dashboard.Items[i].EnvironmentId = environment.Id
        /\ SameTenant(dashboard.Items[i], tenant)}

\* C17: in the tenant progression every tenant has one section; a tenant with
\* derived environments gets a header of their names, the separator and exactly
\* one body row with one cell per derived environment, the cell showing the
\* first item of Items that matches the tenant and the environment, or the
\* placeholder when none matches; a tenant without derived environments gets
\* the text "No deployments" and no header, separator or body row.
C17_TenantTable ==
    Rendered("get_project_tenant_progression_response") =>
        LET d == args.dashboard
            lines == Lines(result.value)
            end(t) == IF t = Len(d.Tenants) THEN Len(lines) ELSE SectionStart(lines, t + 1)
        IN  /\ Cardinality(SectionStarts(lines)) = Len(d.Tenants)
            /\ \A t \in 1..Len(d.Tenants) :
                  LET tenant == d.Tenants[t]
                      start == SectionStart(lines, t)
                      environments == DerivedEnvironments(d, tenant, args.project_id)
                  IN  /\ lines[start] = <<"##", " ">> \o tenant.Name
                      /\ IF environments = <<>>
                         THEN /\ end(t) = start + 4
                              /\ lines[start + 1] = <<>>
                              /\ lines[start + 2] = <<"No deployments">>
                              /\ lines[start + 3] = <<>>
                         ELSE /\ end(t) = start + 6
                              /\ CellsOf(lines[start + 1])
                                    = [k \in 1..Len(environments) |->
                                          <<" ">> \o environments[k].Name \o <<" ">>]
                              /\ lines[start + 2] \o <<LF>>
                                    = build_markdown_table_header_separator(Len(environments))
                              /\ Len(CellsOf(lines[start + 3])) = Len(environments)
                              /\ \A k \in 1..Len(environments) :
                                    LET cell == CellsOf(lines[start + 3])[k]
                                        matching == MatchingItems(d, tenant, environments[k])
                                    IN  IF matching = {} THEN cell = PlaceholderCell
                                        ELSE /\ cell # PlaceholderCell
                                             /\ ShownDeploymentId(MessagesOf(ContentOf(cell)))
                                                   = d.Items[CHOOSE i \in matching :
                                                                \A m \in matching : i <= m]
                                                        .DeploymentId
                              /\ lines[start + 4] = <<>>
                              /\ lines[start + 5] = <<>>

\* Globex has no environment for the project, Acme has both and no deployment,
\* and of the two untenanted deployments to E1 the first is shown
C17_Witness ==
    /\ Rendered("get_project_tenant_progression_response")
    /\ "Tenants" \in DOMAIN args.dashboard
    /\ args.dashboard.Tenants = <<Globex, Acme, Untenanted>>
    /\ "Items" \in DOMAIN args.dashboard
    /\ args.dashboard.Items
          = << WithoutTenantId(ReleaseDeployment(Str("Releases-2"), Str("E1"), None)),
               ReleaseDeployment(Str("Releases-1"), Str("E1"), None) >>
    /\ LET lines == Lines(result.value)
       IN  /\ lines[SectionStart(lines, 1) + 2] = <<"No deployments">>
           /\ TenantCells(lines, 2) = <<PlaceholderCell, PlaceholderCell>>
           /\ ShownDeploymentId(MessagesOf(ContentOf(TenantCells(lines, 3)[1])))
                 = WithoutTenantId(ReleaseDeployment(Str("Releases-2"), Str("E1"), None))
                      .DeploymentId
           /\ TenantCells(lines, 3)[2] = PlaceholderCell


-----------------------------------------------------------------------------
(* Properties of repeated invocations (SpecRepeated) *)

\* C11: two invocations of a render function with identical arguments and the
\* same now return the same string.
C11_Deterministic ==
    pc = "done" /\ "reads" \in DOMAIN args => result[1] = result[2]

-----------------------------------------------------------------------------
(* Properties of answer_general_query (SpecQuery) *)

\* C19: every call of answer_general_query, with or without logging, invokes
\* the callback exactly once and returns its result; in the body passed to it
\* every built-in key holds its sanitized value, whatever the extra keyword
\* arguments are, and every other extra keyword argument is there with its
\* value unchanged.
C19_CallbackOnce ==
    Done("answer_general_query") =>
        /\ result.raised = ""
        /\ Len(result.calls) = 1
        /\ result.value = <<callback(result.calls[1][1], result.calls[1][2],
                                     result.calls[1][3])>>
        /\ LET body == result.calls[1][2]
           IN  /\ \A k \in BodyKeys : body[k] = InitialBody(args)[k]
               /\ \A i \in 1..Len(args.kwargs) :
                     args.kwargs[i][1] \notin BodyKeys =>
                         body[args.kwargs[i][1]] = Unchanged(args.kwargs[i][2])

-----------------------------------------------------------------------------
(* Properties of send_slack_message and handle_error (SpecSlack) *)

\* whether the sending of a message fails: the message cannot be serialised,
\* the request raises, or the response status is not 200
SendFails(message, slack_url, outcome) ==
    \/ ~message.serializable
    \/ slack_url.kind # "str"
    \/ outcome.raised # ""
    \/ outcome.status # 200

\* C20: send_slack_message returns normally whatever the request does, and
\* logs the failure when the request raises or the status is not 200;
\* handle_error, which reports through it, returns normally for every
\* exception.
C20_NeverPropagates ==
    /\ Done("send_slack_message") =>
          /\ result.raised = ""
          /\ SendFails(args.message, args.slack_url, args.outcome) <=> result.log # <<>>
    /\ Done("handle_error") => result.raised = ""

\* handle_error returns although the request of its message raised: the url it
\* hands over is the function get_slack_url, and the failure is logged after
\* the error message and the traceback
C20_Witness ==
    /\ Done("handle_error")
    /\ args.exception.message = Nothing
    /\ args.outcome.raised = "" /\ args.outcome.status = 200
    /\ Len(result.requests) = 1
    /\ result.requests[1][1] = get_slack_url
    /\ result.raised = ""
    /\ Len(result.log) = 4

=============================================================================
